---------------------------- MODULE Spec2Model ----------------------------
(***************************************************************************)
(* The ingestion pipeline of codelayers: run_ingestion                     *)
(* (src/src/codelayers/ingestion/runner.py), an async generator that       *)
(* discovers the files of a repository, parses and enriches the python     *)
(* files, assembles messages (knowledge chunks) and hands them in batches  *)
(* to the typeagent conversation, yielding progress events and polling a   *)
(* cancellation event.                                                     *)
(*                                                                         *)
(* The generator is modelled by its position pc.  It is suspended at every *)
(* yield and at every await; only there can the consumer (or any other     *)
(* task of the event loop) set the cancellation event.  The positions      *)
(* parse_loop, jedi_loop, msg_loop and text_loop are inside synchronous    *)
(* code: between two of their steps nothing else runs.                     *)
(***************************************************************************)
EXTENDS Integers, Sequences, FiniteSets, TLC

\* ------------------------------------------------------------------ bounds
\* Largest number of files discovery returns.
MaxFiles == 2
\* Number of methods of the class of the small parsed file.
MaxMethods == 1
\* Number of top-level functions of the medium parsed file.
MidFunctions == 49
\* Number of top-level functions of the large parsed file.
BigFunctions == 74
\* Largest semrefs_added value the conversation returns for one batch.
MaxSemrefs == 1

\* ------------------------------------------------------- program constants
\* runner.py:286  batch_size = 50
batch_size == 50
\* runner.py:135  (i + 1) % 50 == 0
parse_report_every == 50
\* runner.py:172 and runner.py:229  % 25 == 0
report_every == 25

VARIABLES
    pc,                   \* position of the generator
    cancel_event,         \* cancel_event.is_set()
    events,               \* the events yielded so far, in order
    files,                \* result of discover_files
    python_files,         \* runner.py:122
    parse_results,        \* what asyncio.gather(*tasks) returned
    jedi_results,         \* what asyncio.gather(*jedi_tasks) returned
    all_parsed,           \* runner.py:116
    all_jedi_analyses,    \* runner.py:117
    all_messages,         \* runner.py:118
    failures,             \* runner.py:119
    i,                    \* index of the loop the generator is in
    processed,            \* runner.py:205
    conversations,        \* number of create_conversation calls made
    batches,              \* batches passed to add_messages_with_indexing
    semrefs_added,        \* runner.py:288
    messages_added_total, \* runner.py:289
    result,               \* the IngestResult of the IngestionComplete event
    observed,             \* the cancellation poll that saw the event set
    cancel_set_at,        \* the position at which the event was set
    raised_in,            \* the stage in which an exception was raised
    failed_batch,         \* the batch number whose indexing call raised
    returned,             \* the values add_messages_with_indexing returned
    call                  \* the call of a helper under examination

vars == <<pc, cancel_event, events, files, python_files, parse_results,
          jedi_results, all_parsed, all_jedi_analyses, all_messages, failures,
          i, processed, conversations, batches, semrefs_added,
          messages_added_total, result, observed, cancel_set_at, raised_in,
          failed_batch, returned, call>>

\* ------------------------------------------------------------ the repository
\* A parsed file (ParsedPython) is kept by its shape: classes is the sequence
\* of the classes' method counts, functions the number of top-level functions.
ParsedShapes ==
    { [classes |-> <<MaxMethods>>, functions |-> 1],
      [classes |-> <<>>, functions |-> MidFunctions],
      [classes |-> <<>>, functions |-> BigFunctions] }

NoShape == [classes |-> <<>>, functions |-> 0]

\* What the file system holds for one discovered file: for a python file
\* whether parse_python_file returns a ParsedPython (and which) or None, and
\* whether analyze_python_file_with_jedi returns an analysis or None; for a
\* text file what parse_text_file finds.
PythonFiles ==
    { [kind |-> "python", parses |-> FALSE, shape |-> NoShape,
       jedi |-> FALSE, text |-> "n/a"] }
    \cup
    { [kind |-> "python", parses |-> TRUE, shape |-> s, jedi |-> j,
       text |-> "n/a"] : s \in ParsedShapes, j \in BOOLEAN }

TextFiles ==
    { [kind |-> k, parses |-> FALSE, shape |-> NoShape, jedi |-> FALSE,
       text |-> t] :
        k \in {"documentation", "configuration"},
        t \in {"ok", "blank", "unreadable"} }

FileKinds == PythonFiles \cup TextFiles

Repositories ==
    UNION { [1..n -> FileKinds] : n \in 0..MaxFiles }


\* ------------------------------------------------------------------ helpers
RECURSIVE SumSeq(_)
SumSeq(s) == IF s = <<>> THEN 0 ELSE Head(s) + SumSeq(Tail(s))

RECURSIVE SelectIndices(_, _, _)
\* The indices k >= from of the files fs whose kind is in kinds, in order.
SelectIndices(fs, kinds, from) ==
    IF from > Len(fs) THEN <<>>
    ELSE IF fs[from].kind \in kinds
         THEN <<from>> \o SelectIndices(fs, kinds, from + 1)
         ELSE SelectIndices(fs, kinds, from + 1)

PythonKind == {"python"}
TextKinds == {"documentation", "configuration"}

\* ------------------------------------------------------------------- events
\* IngestionProgress(stage, StageState(status, progress, detail)): progress is
\* pnum / pden * 100; batch is the batch number the detail text names (0 when
\* the text names none).
IngestionProgress(stage, status, pnum, pden, batch) ==
    [type |-> "progress", stage |-> stage, status |-> status, pnum |-> pnum,
     pden |-> pden, batch |-> batch, error |-> ""]

\* IngestionComplete(result, summary_text); the IngestResult is kept in the
\* variable result.
IngestionComplete ==
    [type |-> "complete", stage |-> "", status |-> "", pnum |-> 0, pden |-> 1,
     batch |-> 0, error |-> ""]

\* Mutant of IngestionError: every error names the stage 'unknown'.
IngestionError_Unknown(error, stage) ==
    [type |-> "error", stage |-> "unknown", status |-> "", pnum |-> 0, pden |-> 1,
     batch |-> 0, error |-> error]

\* IngestionError(error, stage): neither field is built from a batch number.
IngestionError(error, stage) ==
    [type |-> "error", stage |-> stage, status |-> "", pnum |-> 0, pden |-> 1,
     batch |-> 0, error |-> error]

Yield(e) == events' = Append(events, e)

\* ------------------------------------------------------ the per-file tasks
\* parse_python_file: a ParsedPython, or None for a file that cannot be read
\* or parsed (every exception is caught).  path is the file's index in files.
parse_python_file(path) ==
    IF files[path].parses
    THEN [ok |-> TRUE, file_path |-> path, shape |-> files[path].shape]
    ELSE [ok |-> FALSE, file_path |-> path, shape |-> NoShape]

\* analyze_python_file_with_jedi: a JediAnalysis of the file, or None.
analyze_python_file_with_jedi(path) ==
    [ok |-> files[path].jedi, file_path |-> path]

\* create_module_message: one message of three text chunks, never empty.
create_module_message(parsed) == <<parsed.file_path, 0>>

\* Number of messages create_entity_messages_with_jedi builds: one per class,
\* one per method, one per top-level function.
NumEntities(shape) ==
    Len(shape.classes) + SumSeq(shape.classes) + shape.functions

\* create_entity_messages_with_jedi: the entity messages of a parsed file in
\* order; the analysis (or None) changes only the summary text.
create_entity_messages_with_jedi(parsed, jedi_analysis) ==
    [k \in 1..NumEntities(parsed.shape) |-> <<parsed.file_path, k>>]

\* parse_text_file: a one-chunk message, or None for a blank file or a file
\* that cannot be read (the exception is caught and logged).
parse_text_file(path) ==
    IF files[path].text = "ok" THEN <<<<path, 0>>>> ELSE <<>>

\* ------------------------------------------------------------------- state
data == <<files, python_files, parse_results, jedi_results, all_parsed,
          all_jedi_analyses, all_messages, failures, i, processed>>
index == <<conversations, batches, semrefs_added, messages_added_total,
           result, returned>>
faults == <<raised_in, failed_batch>>

NoResult ==
    [files_processed |-> 0, messages_created |-> 0, symbols_indexed |-> 0,
     semrefs_added |-> 0, failures |-> <<>>]

\* No helper is under examination during a run of the pipeline.
NoCall == [fn |-> "none"]

\* The state before run_ingestion is started.
NotStarted ==
    /\ pc = "start"
    /\ cancel_event = FALSE
    /\ events = <<>>
    /\ files = <<>>
    /\ python_files = <<>>
    /\ parse_results = <<>>
    /\ jedi_results = <<>>
    /\ all_parsed = <<>>
    /\ all_jedi_analyses = <<>>
    /\ all_messages = <<>>
    /\ failures = <<>>
    /\ i = 0
    /\ processed = 0
    /\ conversations = 0
    /\ batches = <<>>
    /\ semrefs_added = 0
    /\ messages_added_total = 0
    /\ result = NoResult
    /\ observed = "none"
    /\ cancel_set_at = "none"
    /\ raised_in = "none"
    /\ failed_batch = 0
    /\ returned = <<>>

Init == NotStarted /\ call = NoCall

\* The positions at which the generator is suspended (a yield or an await)
\* and control is with the event loop.
SuspendPoints ==
    { "start", "y_discovery_active", "y_discovery_complete",
      "y_parsing_active", "await_parse", "y_parsing_progress",
      "y_parsing_complete", "y_type_active", "await_jedi", "y_type_progress",
      "y_type_complete", "y_msg_active", "y_msg_progress", "y_msg_complete",
      "y_indexing_active", "await_create_conversation", "y_batch_start",
      "await_add_messages", "y_batch_done", "y_indexing_complete" }

\* cancel_event.set() by the consumer, while the generator is suspended.
SetCancel ==
    /\ pc \in SuspendPoints
    /\ ~cancel_event
    /\ cancel_event' = TRUE
    /\ cancel_set_at' = pc
    /\ UNCHANGED <<pc, events, data, index, observed, faults, call>>

\* Mutant of is_set: the poll after a loop's progress event is missing.
is_set_NotInLoops(poll) ==
    cancel_event /\ poll \notin {"parse_loop", "jedi_loop", "message_loop",
                                 "text_loop", "batch_loop"}

\* Mutant of is_set: the poll before the parsing stage is missing.
is_set_NotBeforeParsing(poll) == cancel_event /\ poll # "before_parsing"

\* "cancel_event and cancel_event.is_set()" at the named poll.
is_set(poll) == cancel_event

\* Mutant of CancelReturn: the exit is reported with an event.
CancelReturn_Reports(poll) ==
    /\ pc' = "cancelled"
    /\ observed' = poll
    /\ Yield(IngestionError("Ingestion cancelled", "unknown"))
    /\ UNCHANGED <<cancel_event, data, index, cancel_set_at, faults, call>>

\* "if cancel_event and cancel_event.is_set(): return" at the named poll.
CancelReturn(poll) ==
    /\ pc' = "cancelled"
    /\ observed' = poll
    /\ UNCHANGED <<cancel_event, events, data, index, cancel_set_at, faults,
                   call>>

\* "except Exception as e: yield IngestionError(error=str(e), stage=...)":
\* text is str(e), stage the stage the failing statement belongs to.
ExceptHandler(text, stage, batch_num) ==
    /\ Yield(IngestionError(text, "unknown"))
    /\ pc' = "failed"
    /\ raised_in' = stage
    /\ failed_batch' = batch_num
    /\ UNCHANGED <<cancel_event, data, index, observed, cancel_set_at, call>>

\* ------------------------------------------------------------------ actions
\* runner.py:73-89: the path check and the first event.
Start ==
    /\ pc = "start"
    /\ \E exists \in BOOLEAN :
         IF ~exists
         THEN /\ Yield(IngestionError("Repository path does not exist",
                                      "discovery"))
              /\ pc' = "failed"
         ELSE /\ Yield(IngestionProgress("discovery", "active", 0, 1, 0))
              /\ pc' = "y_discovery_active"
    /\ UNCHANGED <<cancel_event, data, index, observed, cancel_set_at, faults,
                   call>>

\* runner.py:91-106: poll, discover_files, the discovery 'complete' event.
Discover ==
    /\ pc = "y_discovery_active"
    /\ IF is_set("before_discovery")
       THEN CancelReturn("before_discovery")
       ELSE \/ \E fs \in Repositories :
                 /\ files' = fs
                 /\ Yield(IngestionProgress("discovery", "complete", 1, 1, 0))
                 /\ pc' = "y_discovery_complete"
                 /\ UNCHANGED <<cancel_event, python_files, parse_results,
                                jedi_results, all_parsed, all_jedi_analyses,
                                all_messages, failures, i, processed, index,
                                observed, cancel_set_at, faults, call>>
            \/ ExceptHandler("discover_files raised", "discovery", 0)

\* runner.py:108-114: poll, the parsing 'active' event.
StartParsing ==
    /\ pc = "y_discovery_complete"
    /\ IF is_set("before_parsing")
       THEN CancelReturn("before_parsing")
       ELSE /\ Yield(IngestionProgress("parsing", "active", 0, 1, 0))
            /\ pc' = "y_parsing_active"
            /\ UNCHANGED <<cancel_event, data, index, observed, cancel_set_at,
                           faults, call>>

\* runner.py:116-125: one parse task per python file, awaited together; the
\* k-th result of asyncio.gather is the result of the k-th task.
ParseFanOut ==
    /\ pc = "y_parsing_active"
    /\ python_files' = SelectIndices(files, PythonKind, 1)
    /\ parse_results' =
         [k \in 1..Len(python_files') |-> parse_python_file(python_files'[k])]
    /\ i' = 0
    /\ pc' = "await_parse"
    /\ UNCHANGED <<cancel_event, events, files, jedi_results, all_parsed,
                   all_jedi_analyses, all_messages, failures, processed,
                   index, observed, cancel_set_at, faults, call>>

\* Mutant of ParsingComplete: the status of the event is 'active'.
ParsingComplete_StillActive == IngestionProgress("parsing", "active", 1, 1, 0)

\* Mutant of ParsingComplete: the 'complete' event reports progress 0.
ParsingComplete_NoProgress == IngestionProgress("parsing", "complete", 0, 1, 0)

\* runner.py:146-149: the parsing 'complete' event.
ParsingComplete == IngestionProgress("parsing", "complete", 1, 1, 0)

\* Mutant of ParseFailed: the failure is recorded twice.
ParseFailed_Twice(path) ==
    << <<path, "Parse failed">>, <<path, "Parse failed">> >>

\* Mutant of ParseFailed: the failure is not recorded.
ParseFailed_Dropped(path) == <<>>

\* runner.py:132: what failures.append adds for a file whose parse result is
\* None.
ParseFailed(path) == << <<path, "Parse failed">> >>

\* runner.py:125-149: one iteration of the result loop (i results are done),
\* or, after the last, the parsing 'complete' event.
ParseLoop ==
    /\ pc \in {"await_parse", "parse_loop", "y_parsing_progress"}
    /\ IF i < Len(python_files)
       THEN IF is_set("parse_loop")
            THEN CancelReturn("parse_loop")
            ELSE /\ IF parse_results[i + 1].ok
                    THEN /\ all_parsed' =
                              Append(all_parsed, parse_results[i + 1])
                         /\ UNCHANGED failures
                    ELSE /\ failures' =
                              failures \o ParseFailed(python_files[i + 1])
                         /\ UNCHANGED all_parsed
                 /\ i' = i + 1
                 /\ IF (i + 1) % parse_report_every = 0
                       \/ i = Len(python_files) - 1
                    THEN /\ Yield(IngestionProgress("parsing", "active", i + 1,
                                                    Len(python_files), 0))
                         /\ pc' = "y_parsing_progress"
                    ELSE /\ pc' = "parse_loop"
                         /\ UNCHANGED events
                 /\ UNCHANGED <<cancel_event, files, python_files,
                                parse_results, jedi_results, all_jedi_analyses,
                                all_messages, processed, index, observed,
                                cancel_set_at, faults, call>>
       ELSE /\ Yield(ParsingComplete)
            /\ pc' = "y_parsing_complete"
            /\ UNCHANGED <<cancel_event, data, index, observed, cancel_set_at,
                           faults, call>>

\* Mutant of any_parsed: the type analysis stage is entered unconditionally.
any_parsed_Always == TRUE

\* runner.py:151: `if all_parsed:`
any_parsed == all_parsed # <<>>

\* runner.py:151-158: only when a file parsed: poll, the type_analysis
\* 'active' event.
StartTypeAnalysis ==
    /\ pc = "y_parsing_complete"
    /\ any_parsed
    /\ IF is_set("before_type_analysis")
       THEN CancelReturn("before_type_analysis")
       ELSE /\ Yield(IngestionProgress("type_analysis", "active", 0, 1, 0))
            /\ pc' = "y_type_active"
            /\ UNCHANGED <<cancel_event, data, index, observed, cancel_set_at,
                           faults, call>>

\* runner.py:160-165: one enrichment task per parsed file, awaited together.
JediFanOut ==
    /\ pc = "y_type_active"
    /\ jedi_results' =
         [k \in 1..Len(all_parsed) |->
            analyze_python_file_with_jedi(all_parsed[k].file_path)]
    /\ i' = 0
    /\ pc' = "await_jedi"
    /\ UNCHANGED <<cancel_event, events, files, python_files, parse_results,
                   all_parsed, all_jedi_analyses, all_messages, failures,
                   processed, index, observed, cancel_set_at, faults, call>>

\* runner.py:165-190: one iteration of the enrichment result loop, or, after
\* the last, the type_analysis 'complete' event.
JediLoop ==
    /\ pc \in {"await_jedi", "jedi_loop", "y_type_progress"}
    /\ IF i < Len(jedi_results)
       THEN IF is_set("jedi_loop")
            THEN CancelReturn("jedi_loop")
            ELSE /\ all_jedi_analyses' =
                      Append(all_jedi_analyses, jedi_results[i + 1])
                 /\ i' = i + 1
                 /\ IF (i + 1) % report_every = 0 \/ i = Len(all_parsed) - 1
                    THEN /\ Yield(IngestionProgress("type_analysis", "active",
                                                    i + 1, Len(all_parsed), 0))
                         /\ pc' = "y_type_progress"
                    ELSE /\ pc' = "jedi_loop"
                         /\ UNCHANGED events
                 /\ UNCHANGED <<cancel_event, files, python_files,
                                parse_results, jedi_results, all_parsed,
                                all_messages, failures, processed, index,
                                observed, cancel_set_at, faults, call>>
       ELSE /\ Yield(IngestionProgress("type_analysis", "complete", 1, 1, 0))
            /\ pc' = "y_type_complete"
            /\ UNCHANGED <<cancel_event, data, index, observed, cancel_set_at,
                           faults, call>>

\* runner.py:192-205: poll, the message_creation 'active' event.
StartMessageCreation ==
    /\ \/ pc = "y_type_complete"
       \/ pc = "y_parsing_complete" /\ ~any_parsed
    /\ IF is_set("before_message_creation")
       THEN CancelReturn("before_message_creation")
       ELSE /\ Yield(IngestionProgress("message_creation", "active", 0, 1, 0))
            /\ pc' = "y_msg_active"
            /\ i' = 0
            /\ processed' = 0
            /\ UNCHANGED <<cancel_event, files, python_files, parse_results,
                           jedi_results, all_parsed, all_jedi_analyses,
                           all_messages, failures, index, observed,
                           cancel_set_at, faults, call>>

\* Mutant of total_items: only the text files are counted.
total_items_TextOnly == Len(SelectIndices(files, TextKinds, 1))

\* runner.py:202-204
total_items ==
    Len(all_parsed) + Len(SelectIndices(files, TextKinds, 1))

\* runner.py:207-238: one iteration of the loop over all_parsed (i files are
\* done): the module message, then the entity messages built with the file's
\* entry of all_jedi_analyses; after the last file, on to the text files.
MessageLoop ==
    /\ pc \in {"y_msg_active", "msg_loop", "y_msg_progress"}
    /\ IF i < Len(all_parsed)
       THEN IF is_set("message_loop")
            THEN CancelReturn("message_loop")
            ELSE /\ all_messages' =
                      Append(all_messages,
                             create_module_message(all_parsed[i + 1]))
                      \o create_entity_messages_with_jedi(
                             all_parsed[i + 1], all_jedi_analyses[i + 1])
                 /\ processed' = processed + 1
                 /\ i' = i + 1
                 /\ IF processed' % report_every = 0
                       \/ processed' = Len(all_parsed)
                    THEN /\ Yield(IngestionProgress("message_creation",
                                                    "active", processed',
                                                    total_items, 0))
                         /\ pc' = "y_msg_progress"
                    ELSE /\ pc' = "msg_loop"
                         /\ UNCHANGED events
                 /\ UNCHANGED <<cancel_event, files, python_files,
                                parse_results, jedi_results, all_parsed,
                                all_jedi_analyses, failures, index, observed,
                                cancel_set_at, faults, call>>
       ELSE /\ pc' = "text_loop"
            /\ i' = 0
            /\ UNCHANGED <<cancel_event, events, files, python_files,
                           parse_results, jedi_results, all_parsed,
                           all_jedi_analyses, all_messages, failures,
                           processed, index, observed, cancel_set_at, faults,
                           call>>

\* runner.py:240-258: one iteration of the loop over files (i files are
\* done), or, after the last, the message_creation 'complete' event.
TextLoop ==
    /\ pc = "text_loop"
    /\ IF i < Len(files)
       THEN IF is_set("text_loop")
            THEN CancelReturn("text_loop")
            ELSE /\ IF files[i + 1].kind \in TextKinds
                    THEN /\ all_messages' =
                              all_messages \o parse_text_file(i + 1)
                         /\ processed' = processed + 1
                    ELSE UNCHANGED <<all_messages, processed>>
                 /\ i' = i + 1
                 /\ UNCHANGED <<pc, cancel_event, events, files, python_files,
                                parse_results, jedi_results, all_parsed,
                                all_jedi_analyses, failures, index, observed,
                                cancel_set_at, faults, call>>
       ELSE /\ Yield(IngestionProgress("message_creation", "complete", 1, 1,
                                       0))
            /\ pc' = "y_msg_complete"
            /\ UNCHANGED <<cancel_event, data, index, observed, cancel_set_at,
                           faults, call>>

\* runner.py:260-272: poll, the indexing 'active' event.
StartIndexing ==
    /\ pc = "y_msg_complete"
    /\ IF is_set("before_indexing")
       THEN CancelReturn("before_indexing")
       ELSE /\ Yield(IngestionProgress("indexing", "active", 0, 1, 0))
            /\ pc' = "y_indexing_active"
            /\ UNCHANGED <<cancel_event, data, index, observed, cancel_set_at,
                           faults, call>>

\* runner.py:276-281: the call of create_conversation.
CreateConversation ==
    /\ pc = "y_indexing_active"
    /\ conversations' = conversations + 1
    /\ i' = 0
    /\ pc' = "await_create_conversation"
    /\ UNCHANGED <<cancel_event, events, files, python_files, parse_results,
                   jedi_results, all_parsed, all_jedi_analyses, all_messages,
                   failures, processed, batches, semrefs_added,
                   messages_added_total, result, returned, observed,
                   cancel_set_at, faults, call>>

\* runner.py:276: create_conversation raises.
CreateConversationRaises ==
    /\ pc = "await_create_conversation"
    /\ ExceptHandler("create_conversation raised", "indexing", 0)

\* runner.py:287
total_batches == (Len(all_messages) + batch_size - 1) \div batch_size

\* Mutant of Slice: the slice ends one element early.
Slice_Short(offset) ==
    SubSeq(all_messages, offset + 1,
           IF offset + batch_size - 1 < Len(all_messages)
           THEN offset + batch_size - 1 ELSE Len(all_messages))

\* runner.py:295: all_messages[i : i + batch_size] for the 0-based offset.
Slice(offset) ==
    SubSeq(all_messages, offset + 1,
           IF offset + batch_size < Len(all_messages)
           THEN offset + batch_size ELSE Len(all_messages))

\* runner.py:291-306 and 322-324: the top of the batch loop (i batches are
\* done): poll and the batch's first event, or, after the last batch, the
\* indexing 'complete' event.
BatchLoop ==
    /\ pc \in {"await_create_conversation", "y_batch_done"}
    /\ IF i * batch_size < Len(all_messages)
       THEN IF is_set("batch_loop")
            THEN CancelReturn("batch_loop")
            ELSE /\ Yield(IngestionProgress("indexing", "active", i,
                                            total_batches, i + 1))
                 /\ pc' = "y_batch_start"
                 /\ UNCHANGED <<cancel_event, data, index, observed,
                                cancel_set_at, faults, call>>
       ELSE /\ Yield(IngestionProgress("indexing", "complete", 1, 1, 0))
            /\ pc' = "y_indexing_complete"
            /\ UNCHANGED <<cancel_event, data, index, observed, cancel_set_at,
                           faults, call>>

\* runner.py:308: the call of add_messages_with_indexing(batch).
AddMessages ==
    /\ pc = "y_batch_start"
    /\ batches' = Append(batches, Slice(i * batch_size))
    /\ pc' = "await_add_messages"
    /\ UNCHANGED <<cancel_event, events, data, conversations, semrefs_added,
                   messages_added_total, result, returned, observed,
                   cancel_set_at, faults, call>>

\* runner.py:308-320: the call returns; the counters and the batch's second
\* event.
AddMessagesReturns ==
    /\ pc = "await_add_messages"
    /\ \E semrefs \in 0..MaxSemrefs :
         /\ returned' = Append(returned, semrefs)
         /\ semrefs_added' = semrefs_added + semrefs
    /\ messages_added_total' = messages_added_total + Len(batches[i + 1])
    /\ i' = i + 1
    /\ Yield(IngestionProgress("indexing", "active", i + 1, total_batches,
                               i + 1))
    /\ pc' = "y_batch_done"
    /\ UNCHANGED <<cancel_event, files, python_files, parse_results,
                   jedi_results, all_parsed, all_jedi_analyses, all_messages,
                   failures, processed, conversations, batches, result,
                   observed, cancel_set_at, faults, call>>

\* runner.py:308: add_messages_with_indexing raises.
AddMessagesRaises ==
    /\ pc = "await_add_messages"
    /\ ExceptHandler("add_messages_with_indexing raised", "indexing", i + 1)

\* runner.py:264: symbols_count
symbols_count ==
    SumSeq([k \in 1..Len(all_parsed) |->
              Len(all_parsed[k].shape.classes) + all_parsed[k].shape.functions])

\* Mutant of IngestResult: files_processed counts the parsed files only.
IngestResult_ParsedOnly ==
    [files_processed |-> Len(all_parsed),
     messages_created |-> Len(all_messages),
     symbols_indexed |-> symbols_count,
     semrefs_added |-> semrefs_added,
     failures |-> failures]

\* runner.py:343-351: the IngestResult of the terminal event.
IngestResult ==
    [files_processed |-> Len(files),
     messages_created |-> Len(all_messages),
     symbols_indexed |-> symbols_count,
     semrefs_added |-> semrefs_added,
     failures |-> failures]

\* runner.py:326-353: the IngestionComplete event.
Complete ==
    /\ pc = "y_indexing_complete"
    /\ result' = IngestResult
    /\ Yield(IngestionComplete)
    /\ pc' = "done"
    /\ UNCHANGED <<cancel_event, data, conversations, batches, semrefs_added,
                   messages_added_total, returned, observed, cancel_set_at,
                   faults, call>>

Next ==
    \/ Start
    \/ Discover
    \/ StartParsing
    \/ ParseFanOut
    \/ ParseLoop
    \/ StartTypeAnalysis
    \/ JediFanOut
    \/ JediLoop
    \/ StartMessageCreation
    \/ MessageLoop
    \/ TextLoop
    \/ StartIndexing
    \/ CreateConversation
    \/ CreateConversationRaises
    \/ BatchLoop
    \/ AddMessages
    \/ AddMessagesReturns
    \/ AddMessagesRaises
    \/ Complete
    \/ SetCancel

Spec == Init /\ [][Next]_vars

\* ------------------------------------------------------ notions of the claims
Stages ==
    <<"discovery", "parsing", "type_analysis", "message_creation", "indexing">>

StageNames == { Stages[k] : k \in 1..Len(Stages) }

\* The place of a stage in the pipeline order.
StageRank(stage) == CHOOSE k \in 1..Len(Stages) : Stages[k] = stage

ProgressIdx == { k \in 1..Len(events) : events[k].type = "progress" }

StagesSeen == { events[k].stage : k \in ProgressIdx }

HasEvent(stage, status) ==
    \E k \in ProgressIdx :
        events[k].stage = stage /\ events[k].status = status

\* The stages that have emitted 'active' and not yet 'complete'.
ActiveStages ==
    { s \in StageNames : HasEvent(s, "active") /\ ~HasEvent(s, "complete") }

EventsOfType(type) == { k \in 1..Len(events) : events[k].type = type }

\* The yield points of the generator: the positions after a yielded event
\* at which the generator can still be resumed.
YieldPoints ==
    { "y_discovery_active", "y_discovery_complete", "y_parsing_active",
      "y_parsing_progress", "y_parsing_complete", "y_type_active",
      "y_type_progress", "y_type_complete", "y_msg_active", "y_msg_progress",
      "y_msg_complete", "y_indexing_active", "y_batch_start", "y_batch_done",
      "y_indexing_complete" }

\* The work a step starts and the events it emits: nothing of it changes.
NoFurtherWork ==
    /\ events' = events
    /\ parse_results' = parse_results
    /\ jedi_results' = jedi_results
    /\ all_messages' = all_messages
    /\ conversations' = conversations
    /\ batches' = batches

\* ----------------------------------------------------------------------- C1
\* C1: progress events are emitted in the stage order discovery, parsing,
\* type_analysis, message_creation, indexing: no event of an earlier stage
\* follows an event of a later stage, and at most one stage is active (has
\* emitted 'active' and not yet 'complete') at any time.
C1_StageOrder ==
    /\ \A a \in ProgressIdx : \A b \in ProgressIdx :
          a < b => StageRank(events[a].stage) <= StageRank(events[b].stage)
    /\ Cardinality(ActiveStages) <= 1

\* A completed run in which all five stages have emitted events.
C1_Witness ==
    /\ pc = "done"
    /\ StagesSeen = StageNames

\* ----------------------------------------------------------------------- C2
\* The positions from which the resumed generator polls the cancellation
\* event before it does anything else: after the discovery events and after
\* the 'complete' event of parsing, type_analysis and message_creation; after
\* a progress event of the parse, enrichment or batch loop that is not the
\* last of its loop; and in message creation whenever discovery returned a
\* file (the loop over all_parsed or, after it, the loop over files polls).
ResumePolls ==
    \/ pc \in {"y_discovery_active", "y_discovery_complete",
               "y_parsing_complete", "y_type_complete", "y_msg_complete"}
    \/ pc = "y_parsing_progress" /\ i < Len(python_files)
    \/ pc = "y_type_progress" /\ i < Len(jedi_results)
    \/ pc \in {"y_msg_active", "y_msg_progress"} /\ Len(files) > 0
    \/ pc = "text_loop" /\ i = 0 /\ Len(files) > 0
    \/ pc = "y_batch_done" /\ i * batch_size < Len(all_messages)

\* C2 (as amended): resumed with the cancellation event set from a yield
\* point that is followed by a poll, the generator exits without starting
\* any further work (no fan-out, no create_conversation, no
\* add_messages_with_indexing) and without emitting any further event.
C2_PolledYieldsExit ==
    [][ (cancel_event /\ ResumePolls) =>
           /\ NoFurtherWork
           /\ \/ pc' = "cancelled"
              \/ pc' = "text_loop" /\ ResumePolls' ]_vars

\* A run cancelled between two batches: the event was set after a batch's
\* 'done' event and the poll of the next batch saw it.
C2_Witness ==
    /\ pc = "cancelled"
    /\ cancel_set_at = "y_batch_done"
    /\ observed = "batch_loop"

\* C2 (as stated): at every yield point, resumed with the cancellation event
\* set, the generator exits without further work and without further event.
C2_EveryYieldExits ==
    [][ (cancel_event /\ pc \in YieldPoints) =>
           /\ NoFurtherWork
           /\ pc' \in {"cancelled", "text_loop"} ]_vars

\* ----------------------------------------------------------------------- C3
\* C3: when the cancellation event is set after the discovery 'complete'
\* event and before parsing starts, the only step left is the exit at the
\* poll before parsing: no parsing, type_analysis, message_creation or
\* indexing event, no IngestionComplete, no create_conversation and no
\* add_messages_with_indexing call.
C3_CancelAfterDiscovery ==
    cancel_set_at = "y_discovery_complete" =>
        /\ pc \in {"y_discovery_complete", "cancelled"}
        /\ pc = "cancelled" => observed = "before_parsing"
        /\ StagesSeen = {"discovery"}
        /\ EventsOfType("complete") = {}
        /\ parse_results = <<>>
        /\ conversations = 0
        /\ batches = <<>>

\* The run that was cancelled after the discovery 'complete' event has ended.
C3_Witness ==
    /\ cancel_set_at = "y_discovery_complete"
    /\ pc = "cancelled"
    /\ Len(files) > 0

\* ----------------------------------------------------------------------- C4
\* The batches the batch loop has submitted when i batches are done.
SubmittedSlices == [k \in 1..i |-> Slice((k - 1) * batch_size)]

\* C4: the step in which a poll observes the cancellation event, and every
\* step after it, emits no event and makes no call to the conversation; when
\* the poll of the batch loop observes it, the batch at hand and the later
\* ones are not submitted, and the batches submitted before stay as they are.
C4_ObservedStops ==
    /\ [][ observed' # "none" => NoFurtherWork ]_vars
    /\ [](observed = "batch_loop" =>
            /\ batches = SubmittedSlices
            /\ i * batch_size < Len(all_messages)
            /\ messages_added_total = i * batch_size)

\* The event was set while a batch was being written; that batch and the one
\* before it are committed, the next one is not submitted.
C4_Witness ==
    /\ observed = "batch_loop"
    /\ cancel_set_at = "await_add_messages"
    /\ Len(batches) >= 2

\* ----------------------------------------------------------------------- C5
LastEvent == events[Len(events)]

\* C5: a run that ends because a poll observed the cancellation event has
\* emitted no IngestionError, and its last event reports the results gathered
\* so far (the only event that carries results is IngestionComplete).
C5_CancelReportsPartial ==
    pc = "cancelled" =>
        /\ EventsOfType("error") = {}
        /\ events # <<>>
        /\ LastEvent.type = "complete"

\* ----------------------------------------------------------------------- C6
\* C6: when an exception escapes a stage, exactly one IngestionError is
\* emitted, it is the last event, its stage field names the stage in which
\* the exception was raised, it carries the error text, and nothing is
\* retried.
C6_ErrorNamesStage ==
    raised_in # "none" =>
        /\ pc = "failed"
        /\ Cardinality(EventsOfType("error")) = 1
        /\ LastEvent.type = "error"
        /\ LastEvent.error # ""
        /\ LastEvent.stage = raised_in
        /\ conversations <= 1

\* ----------------------------------------------------------------------- C7
\* C7: when add_messages_with_indexing fails on batch k, no batch after k is
\* submitted, no indexing 'complete' event and no IngestionComplete is
\* emitted, exactly one IngestionError is emitted, and that error identifies
\* batch k.
C7_FailedBatchReported ==
    failed_batch # 0 =>
        /\ pc = "failed"
        /\ Len(batches) = failed_batch
        /\ ~HasEvent("indexing", "complete")
        /\ EventsOfType("complete") = {}
        /\ Cardinality(EventsOfType("error")) = 1
        /\ LastEvent.type = "error"
        /\ LastEvent.batch = failed_batch

\* ----------------------------------------------------------------------- C8
\* The discovered source files whose parse fails, and the others, in
\* discovery order (a file is named by its index in files).
SourcePaths == SelectIndices(files, PythonKind, 1)

FailedPaths == SelectSeq(SourcePaths, LAMBDA p : ~files[p].parses)

ParsedPaths == SelectSeq(SourcePaths, LAMBDA p : files[p].parses)

Range(s) == { s[k] : k \in 1..Len(s) }

RECURSIVE Concat(_)
Concat(ss) == IF ss = <<>> THEN <<>> ELSE Head(ss) \o Concat(Tail(ss))

\* The chunks of one source file that parses: its module chunk, then one
\* chunk per class, method and function.
ChunksOfSource(p) ==
    [k \in 1..(1 + NumEntities(files[p].shape)) |-> <<p, k - 1>>]

\* The chunks of one text file.
ChunksOfText(p) == IF files[p].text = "ok" THEN << <<p, 0>> >> ELSE <<>>

\* What a repository made of the files named by sources and texts assembles
\* to when every source file parses.
Assembled(sources, texts) ==
    Concat([k \in 1..Len(sources) |-> ChunksOfSource(sources[k])])
    \o Concat([k \in 1..Len(texts) |-> ChunksOfText(texts[k])])

\* C8: in a completed run every source file whose parse failed has exactly
\* one (path, reason) entry in the failures of IngestionComplete, with a
\* non-empty reason, got no enrichment task and contributes no chunk; the
\* other files are parsed, enriched and assembled as if the failing files
\* were absent; and a parse failure by itself does not fail the run (the
\* only exception after discovery comes from the index collaborator).
C8_ParseFailureTolerated ==
    /\ pc = "done" =>
          /\ \A p \in Range(FailedPaths) :
                /\ Cardinality({ k \in 1..Len(result.failures) :
                                   result.failures[k][1] = p }) = 1
                /\ \A k \in 1..Len(result.failures) :
                      result.failures[k][1] = p => result.failures[k][2] # ""
                /\ \A k \in 1..Len(jedi_results) :
                      jedi_results[k].file_path # p
                /\ \A k \in 1..Len(all_messages) : all_messages[k][1] # p
          /\ [k \in 1..Len(all_parsed) |-> all_parsed[k].file_path]
                = ParsedPaths
          /\ [k \in 1..Len(jedi_results) |-> jedi_results[k].file_path]
                = ParsedPaths
          /\ all_messages
                = Assembled(ParsedPaths, SelectIndices(files, TextKinds, 1))
    /\ (FailedPaths # <<>> /\ pc = "failed") => raised_in = "indexing"

\* A completed run over a source file whose parse failed and a source file
\* that parsed.
C8_Witness ==
    /\ pc = "done"
    /\ FailedPaths # <<>>
    /\ ParsedPaths # <<>>

\* ----------------------------------------------------------------------- C9
\* The files with a non-fatal failure: a source file whose parse failed, a
\* parsed file whose enrichment returned None, a text file that could not be
\* read.
NonFatalFailures ==
    { p \in 1..Len(files) :
        \/ files[p].kind = "python" /\ ~files[p].parses
        \/ files[p].kind = "python" /\ files[p].parses /\ ~files[p].jedi
        \/ files[p].kind \in TextKinds /\ files[p].text = "unreadable" }

C10_BatchesPartition ==
    pc = "done" =>
        LET n == Len(all_messages)
            calls == Len(batches)
        IN  /\ Concat(batches) = all_messages
            /\ \A k \in 1..calls :
                  /\ Len(batches[k]) >= 1
                  /\ Len(batches[k]) <= batch_size
                  /\ k < calls => Len(batches[k]) = batch_size
            /\ Cardinality(UNION { Range(batches[k]) : k \in 1..calls }) = n
            /\ calls * batch_size >= n
            /\ calls > 0 => (calls - 1) * batch_size < n

\* A completed run of three batches or more whose last batch is not full.
C10_Witness ==
    /\ pc = "done"
    /\ Len(batches) >= 3
    /\ Len(batches[Len(batches)]) < batch_size

\* ---------------------------------------------------------------------- C11
\* C11: in the IngestionComplete event files_processed is the number of
\* files discovery returned, messages_created the total number of chunks
\* submitted to the index collaborator over all batches, semrefs_added the
\* sum of the values the collaborator returned, and failures the list of
\* per-file failures accumulated during the run.
C11_CompleteCounts ==
    pc = "done" =>
        /\ LastEvent.type = "complete"
        /\ result.files_processed = Len(files)
        /\ result.messages_created =
               SumSeq([k \in 1..Len(batches) |-> Len(batches[k])])
        /\ result.semrefs_added = SumSeq(returned)
        /\ result.failures = failures

\* A completed run of two batches over a file that failed to parse and a
\* file that parsed, in which the collaborator returned a non-zero count.
C11_Witness ==
    /\ pc = "done"
    /\ Len(batches) >= 2
    /\ SumSeq(returned) > 0
    /\ failures # <<>>

\* ---------------------------------------------------------------------- C12
\* The positions in events of the progress events of a stage with a status.
EventsOf(stage, statuses) ==
    { k \in ProgressIdx :
        events[k].stage = stage /\ events[k].status \in statuses }

AnyStatus == {"active", "complete"}

\* C12: once parsing is complete, if no file parsed then no type_analysis
\* event is emitted, no enrichment task is started, and the event that
\* follows the parsing 'complete' event is the message_creation 'active'
\* event; if a file parsed, every message_creation event is preceded by the
\* type_analysis 'active' and 'complete' events, which follow the parsing
\* 'complete' event.
C12_TypeAnalysisSkipped ==
    \A p \in EventsOf("parsing", {"complete"}) :
        /\ all_parsed = <<>> =>
              /\ EventsOf("type_analysis", AnyStatus) = {}
              /\ jedi_results = <<>>
              /\ pc \notin {"y_type_active", "await_jedi", "jedi_loop",
                            "y_type_progress", "y_type_complete"}
              /\ Len(events) > p =>
                    /\ events[p + 1].type = "progress"
                    /\ events[p + 1].stage = "message_creation"
                    /\ events[p + 1].status = "active"
        /\ all_parsed # <<>> =>
              \A m \in EventsOf("message_creation", AnyStatus) :
                  /\ \E a \in EventsOf("type_analysis", {"active"}) :
                         p < a /\ a < m
                  /\ \E c \in EventsOf("type_analysis", {"complete"}) :
                         p < c /\ c < m
                  /\ Len(jedi_results) = Len(all_parsed)

\* A completed run over a repository whose only source file failed to parse.
C12_Witness ==
    /\ pc = "done"
    /\ python_files # <<>>
    /\ all_parsed = <<>>
    /\ EventsOf("message_creation", {"complete"}) # {}

\* ---------------------------------------------------------------------- C13
\* The progress events of a stage, in the order emitted.
StageEvents(stage) ==
    SelectSeq(events, LAMBDA e : e.type = "progress" /\ e.stage = stage)

\* C13: the events of each stage are a prefix of: one 'active' event with
\* progress 0, then 'active' events, then exactly one 'complete' event with
\* progress 100; nothing of the stage follows its 'complete' event, and in a
\* run that ends with IngestionComplete every stage that emitted an event
\* has emitted its 'complete' event.
C13_StatusSequence ==
    \A stage \in StageNames :
        LET es == StageEvents(stage)
        IN  /\ \A k \in 1..Len(es) :
                  /\ es[k].status \in {"active", "complete"}
                  /\ es[k].status = "complete" =>
                        k = Len(es) /\ k > 1 /\ es[k].pnum = es[k].pden
            /\ es # <<>> => es[1].status = "active" /\ es[1].pnum = 0
            /\ pc = "done" /\ es # <<>> => es[Len(es)].status = "complete"

\* A completed run in which the indexing stage emitted its first 'active'
\* event, further 'active' events and its 'complete' event, and the
\* type_analysis stage ran.
C13_Witness ==
    /\ pc = "done"
    /\ Len(StageEvents("indexing")) >= 4
    /\ StageEvents("type_analysis") # <<>>

\* ================================================== the extractor's functions
\* The variables of run_ingestion, which the helpers examined on their own
\* leave alone.
run == <<pc, cancel_event, events, data, index, observed, cancel_set_at,
         faults>>

\* The longest positional and keyword-only parameter groups examined.
MaxParams == 2

\* A name is a base and a number: p1, p2, ...
Names(base, n) == [k \in 1..n |-> <<base, k>>]

\* libcst's Parameters.star_arg: a Param (*args), a ParamStar (the bare *
\* before keyword-only parameters) or, when the source has neither, the
\* MaybeSentinel.DEFAULT member, an Enum member whose name is "DEFAULT".
StarParam == [kind |-> "Param", name |-> <<"args", 1>>]
ParamStar == [kind |-> "ParamStar"]
MaybeSentinel == [kind |-> "MaybeSentinel", name |-> <<"DEFAULT", 0>>]

\* libcst's Parameters.star_kwarg: a Param (**kwargs) or None.
StarKwargs == { [kind |-> "None"], [kind |-> "Param", name |-> <<"kw", 1>>] }

\* The function definitions examined: every combination of the parameter
\* groups that Python's grammar allows (keyword-only parameters follow a
\* *args or a bare *, and a bare * is followed by one at least).
FunctionDefs ==
    { [asynchronous |-> a, posonly_params |-> Names("o", o),
       params |-> Names("p", p), star_arg |-> s,
       kwonly_params |-> Names("k", k), star_kwarg |-> kw, returns |-> r] :
        a \in BOOLEAN, o \in 0..1, p \in 0..MaxParams,
        s \in {StarParam, ParamStar, MaybeSentinel},
        k \in 0..MaxParams, kw \in StarKwargs, r \in {"", "int"} }

ValidFunctionDefs ==
    { n \in FunctionDefs :
        /\ n.kwonly_params # <<>> => n.star_arg.kind # "MaybeSentinel"
        /\ n.star_arg.kind = "ParamStar" => n.kwonly_params # <<>> }

\* An entry of the parameter list is the string prefix + name: "a", "*",
\* "*args", "**kw".
Entry(prefix, name) == [prefix |-> prefix, name |-> name]
Plain(names) == [k \in 1..Len(names) |-> Entry("", names[k])]

\* parser.py:181 and 189: hasattr(x, "name") for the three kinds of star_arg
\* and for a Param.
hasattr_name(x) == x.kind \in {"Param", "MaybeSentinel"}

\* parser.py:175-194: the list params.
parameters(node) ==
    Plain(node.params)
    \o (IF node.kwonly_params # <<>>
        THEN <<Entry("*", <<>>)>> \o Plain(node.kwonly_params)
        ELSE <<>>)
    \o (IF hasattr_name(node.star_arg)
        THEN <<Entry("*", node.star_arg.name)>>
        ELSE <<>>)
    \o (IF node.star_kwarg.kind # "None" /\ hasattr_name(node.star_kwarg)
        THEN <<Entry("**", node.star_kwarg.name)>>
        ELSE <<>>)

\* parser.py:207-211: the string sig, kept by its parts:
\* [async ]def name(params joined by ", ")[ -> ret].
signature(node) ==
    [prefix |-> IF node.asynchronous THEN "async def" ELSE "def",
     params |-> parameters(node),
     returns |-> node.returns]

\* parser.py:174-237: the entity visit_FunctionDef builds for a definition.
FunctionEntity(node) ==
    [parameters |-> parameters(node), signature |-> signature(node)]

\* The extractor is handed one function definition.
SignatureInit ==
    /\ NotStarted
    /\ call \in { [fn |-> "visit_FunctionDef", node |-> n, done |-> FALSE,
                   out |-> <<>>] : n \in ValidFunctionDefs }

\* parser.py:155-237: visit_FunctionDef builds the entity of the definition.
BuildFunctionEntity ==
    /\ call.fn = "visit_FunctionDef"
    /\ ~call.done
    /\ call' = [call EXCEPT !.done = TRUE, !.out = FunctionEntity(call.node)]
    /\ UNCHANGED run

SignatureSpec == SignatureInit /\ [][BuildFunctionEntity]_vars

\* ---------------------------------------------------------------------- C14
\* The parameters of a definition in the order the source declares them:
\* positional-only, positional, *args, keyword-only, **kwargs.
Declared(node) ==
    Plain(node.posonly_params)
    \o Plain(node.params)
    \o (IF node.star_arg.kind = "Param"
        THEN <<Entry("*", node.star_arg.name)>> ELSE <<>>)
    \o Plain(node.kwonly_params)
    \o (IF node.star_kwarg.kind = "Param"
        THEN <<Entry("**", node.star_kwarg.name)>> ELSE <<>>)

\* The entries of a parameter list that are declared parameters of node.
DeclaredIn(list, node) ==
    SelectSeq(list, LAMBDA e : \E k \in 1..Len(Declared(node)) :
                                   Declared(node)[k] = e)

\* C14: the parameter list and the signature of every function definition
\* list the declared parameters in the order the source declares them.
C14_ParametersInSourceOrder ==
    call.fn = "visit_FunctionDef" /\ call.done =>
        /\ DeclaredIn(call.out.parameters, call.node) = Declared(call.node)
        /\ DeclaredIn(call.out.signature.params, call.node)
               = Declared(call.node)

\* =================================================== the extractor's traversal
\* The largest number of class and function definitions in a syntax tree.
MaxNodes == 3

NodeKinds == {"ClassDef", "FunctionDef"}

RECURSIVE IsEnclosedBy(_, _, _)
\* Whether node k is node a or lies inside it; node 0 is the module.
IsEnclosedBy(parent, k, a) ==
    IF k = a THEN TRUE
    ELSE IF k = 0 THEN FALSE
    ELSE IsEnclosedBy(parent, parent[k], a)

\* The syntax trees examined: the definitions are numbered in the order a
\* depth-first traversal meets them, kind[k] is the kind of definition k and
\* parent[k] the definition whose body holds it (0: the module). Every
\* nesting of up to MaxNodes definitions occurs.
SyntaxTrees ==
    UNION { { [kind |-> kd, parent |-> pr] :
                kd \in [1..n -> NodeKinds],
                pr \in { f \in [1..n -> 0..n] :
                           \A k \in 1..n :
                               /\ f[k] < k
                               /\ k > 1 => IsEnclosedBy(f, k - 1, f[k]) } } :
            n \in 0..MaxNodes }

Top(stack) == IF stack = <<>> THEN 0 ELSE stack[Len(stack)]
Pop(stack) == SubSeq(stack, 1, Len(stack) - 1)

\* parser.py:23-31 and 293-295: a fresh PythonExtractor, about to be taken
\* through the tree by wrapper.visit; open is the path of the traversal and
\* next the definition it meets next.
ExtractInit ==
    /\ NotStarted
    /\ call \in { [fn |-> "extract", tree |-> t, next |-> 1, open |-> <<>>,
                   classes |-> <<>>, functions |-> <<>>,
                   class_stack |-> <<>>, function_stack |-> <<>>] :
                  t \in SyntaxTrees }

\* The traversal enters definition call.next of the given kind.
Enters(kind) ==
    /\ call.fn = "extract"
    /\ call.next <= Len(call.tree.kind)
    /\ call.tree.kind[call.next] = kind
    /\ call.tree.parent[call.next] = Top(call.open)

\* The traversal leaves the innermost open definition, of the given kind.
Leaves(kind) ==
    /\ call.fn = "extract"
    /\ call.open # <<>>
    /\ call.tree.kind[Top(call.open)] = kind
    /\ IF call.next > Len(call.tree.kind) THEN TRUE
       ELSE call.tree.parent[call.next] # Top(call.open)

\* Mutant of MethodOwner: a definition goes to the outermost open class.
MethodOwner_Outermost == call.class_stack[1]

\* parser.py:241: self.class_stack[-1], as the position of the class in
\* self.classes (the stack holds the very dict that self.classes holds).
MethodOwner == Top(call.class_stack)

\* parser.py:103-148: visit_ClassDef.
visit_ClassDef ==
    /\ Enters("ClassDef")
    /\ call' = [call EXCEPT
                  !.classes = Append(@, [name |-> call.next, methods |-> <<>>]),
                  !.class_stack = Append(@, Len(call.classes) + 1),
                  !.open = Append(@, call.next),
                  !.next = @ + 1]
    /\ UNCHANGED run

\* parser.py:150-153: leave_ClassDef.
leave_ClassDef ==
    /\ Leaves("ClassDef")
    /\ call' = [call EXCEPT
                  !.class_stack = IF @ # <<>> THEN Pop(@) ELSE @,
                  !.open = Pop(@)]
    /\ UNCHANGED run

\* parser.py:155-246: visit_FunctionDef, with the entity kept by its name.
visit_FunctionDef ==
    /\ Enters("FunctionDef")
    /\ call' = [call EXCEPT
                  !.classes =
                      IF call.class_stack # <<>>
                      THEN [@ EXCEPT ![MethodOwner].methods =
                                         Append(@, call.next)]
                      ELSE @,
                  !.functions =
                      IF call.class_stack # <<>> THEN @
                      ELSE Append(@, call.next),
                  !.function_stack = Append(@, call.next),
                  !.open = Append(@, call.next),
                  !.next = @ + 1]
    /\ UNCHANGED run

\* parser.py:248-251: leave_FunctionDef.
leave_FunctionDef ==
    /\ Leaves("FunctionDef")
    /\ call' = [call EXCEPT
                  !.function_stack = IF @ # <<>> THEN Pop(@) ELSE @,
                  !.open = Pop(@)]
    /\ UNCHANGED run

ExtractNext ==
    \/ visit_ClassDef
    \/ leave_ClassDef
    \/ visit_FunctionDef
    \/ leave_FunctionDef

ExtractSpec == ExtractInit /\ [][ExtractNext]_vars

\* ---------------------------------------------------------------------- C15
\* The traversal of the tree is over.
Extracted ==
    /\ call.fn = "extract"
    /\ call.next > Len(call.tree.kind)
    /\ call.open = <<>>

\* The function definitions directly inside definition c, in source order.
DirectFunctions(c) ==
    SelectSeq([k \in 1..Len(call.tree.kind) |-> k],
              LAMBDA k : /\ call.tree.kind[k] = "FunctionDef"
                         /\ call.tree.parent[k] = c)

\* C15 (as stated): after extraction the methods of each class entity are
\* exactly the function definitions whose lexical parent is that class: none
\* that is nested inside a method or inside another class, and none missing.
C15_MethodsAreDirectChildren ==
    Extracted =>
        \A c \in 1..Len(call.classes) :
            call.classes[c].methods = DirectFunctions(call.classes[c].name)

RECURSIVE InnermostClass(_)
\* The innermost class definition that encloses definition k, 0 when none
\* does.
InnermostClass(k) ==
    IF call.tree.parent[k] = 0 THEN 0
    ELSE IF call.tree.kind[call.tree.parent[k]] = "ClassDef"
    THEN call.tree.parent[k]
    ELSE InnermostClass(call.tree.parent[k])

\* The function definitions whose innermost enclosing class is c, in source
\* order.
FunctionsWithin(c) ==
    SelectSeq([k \in 1..Len(call.tree.kind) |-> k],
              LAMBDA k : /\ call.tree.kind[k] = "FunctionDef"
                         /\ InnermostClass(k) = c)

\* C15 (as amended): after extraction there is one class entity per class
\* definition, and its methods are, in source order, exactly the function
\* definitions whose innermost enclosing class it is: those directly in its
\* body and those nested inside its methods, but none of a nested class; the
\* functions enclosed by no class are the top-level functions.
C15_MethodsOfInnermostClass ==
    Extracted =>
        /\ [c \in 1..Len(call.classes) |-> call.classes[c].name]
               = SelectSeq([k \in 1..Len(call.tree.kind) |-> k],
                           LAMBDA k : call.tree.kind[k] = "ClassDef")
        /\ \A c \in 1..Len(call.classes) :
               call.classes[c].methods = FunctionsWithin(call.classes[c].name)
        /\ call.functions = FunctionsWithin(0)

\* A class with a method that holds a nested function has been extracted.
C15_Witness ==
    /\ Extracted
    /\ \E k \in 1..Len(call.tree.kind) :
          /\ call.tree.kind[k] = "FunctionDef"
          /\ call.tree.parent[k] # 0
          /\ call.tree.kind[call.tree.parent[k]] = "FunctionDef"
          /\ call.tree.parent[call.tree.parent[k]] # 0
          /\ call.tree.kind[call.tree.parent[call.tree.parent[k]]]
                 = "ClassDef"

\* ========================================================= compute_module_path
\* The deepest directory nesting of the files examined.
MaxDepth == 2

\* A name is the sequence of its pieces, "." being a piece of its own, so
\* that "pkg.sub" is <<"pkg", ".", "sub">>.
Dot == <<".">>
InitStem == <<"__init__">>
DirNames == { <<"pkg">>, <<"sub">>, <<"pkg", ".", "sub">> }
Stems == { <<"pkg">>, <<"sub">>, InitStem, <<"pkg", ".", "sub">> }

\* The source files examined, by their path relative to the repository:
\* the directories from the root down and the stem of the file name (the
\* suffix is ".py").
SourceFiles ==
    { [dirs |-> d, stem |-> s] :
        d \in UNION { [1..n -> DirNames] : n \in 0..MaxDepth }, s \in Stems }

RECURSIVE Join(_, _)
\* sep.join(parts)
Join(parts, sep) ==
    IF parts = <<>> THEN <<>>
    ELSE IF Len(parts) = 1 THEN parts[1]
    ELSE parts[1] \o sep \o Join(Tail(parts), sep)

\* Mutant of compute_module_path: the stem of a package marker is kept.
compute_module_path_KeepsInit(rel_path) ==
    Join(Append(rel_path.dirs, rel_path.stem), Dot)

\* discovery.py:79-92
compute_module_path(rel_path) ==
    LET parts == IF rel_path.stem # InitStem
                 THEN Append(rel_path.dirs, rel_path.stem)
                 ELSE rel_path.dirs
    IN  IF parts # <<>> THEN Join(parts, Dot) ELSE rel_path.stem

\* parser.py:289-290: one run parses two distinct source files.
ModulePathInit ==
    /\ NotStarted
    /\ call \in { [fn |-> "compute_module_path", paths |-> pq,
                   out |-> <<>>] :
                  pq \in { x \in SourceFiles \X SourceFiles :
                             x[1] # x[2] } }

\* parser.py:290: the module path of the next file.
ComputeModulePath ==
    /\ call.fn = "compute_module_path"
    /\ Len(call.out) < Len(call.paths)
    /\ call' = [call EXCEPT
                  !.out = Append(@, compute_module_path(
                                        call.paths[Len(call.out) + 1]))]
    /\ UNCHANGED run

ModulePathSpec == ModulePathInit /\ [][ComputeModulePath]_vars

\* ---------------------------------------------------------------------- C16
\* Both files have their module path.
BothComputed ==
    call.fn = "compute_module_path" /\ Len(call.out) = Len(call.paths)

\* C16 (as stated): no two source files of a run are given the same
\* module_path.
C16_ModulePathsUnique ==
    BothComputed => call.out[1] # call.out[2]

\* No name of the path holds a "." and the file is no package marker.
PlainModule(p) ==
    /\ p.stem # InitStem
    /\ Len(p.stem) = 1
    /\ \A k \in 1..Len(p.dirs) : Len(p.dirs[k]) = 1

\* p is the package marker of a directory and q the module beside that
\* directory with the directory's name: pkg/__init__.py and pkg.py.
MarkerBesideModule(p, q) ==
    /\ p.stem = InitStem
    /\ p.dirs # <<>>
    /\ q.dirs = SubSeq(p.dirs, 1, Len(p.dirs) - 1)
    /\ q.stem = p.dirs[Len(p.dirs)]

\* C16 (as amended): two distinct source files neither of which is a package
\* marker, and whose directory names and stems hold no ".", are given
\* distinct module_paths; a package marker pkg/__init__.py and the module
\* pkg.py beside its directory are given the same module_path.
C16_PlainModulePathsUnique ==
    BothComputed =>
        /\ PlainModule(call.paths[1]) /\ PlainModule(call.paths[2]) =>
               call.out[1] # call.out[2]
        /\ MarkerBesideModule(call.paths[1], call.paths[2]) =>
               call.out[1] = call.out[2]

\* The module paths of pkg/sub/__init__.py and pkg/sub.py are computed.
C16_Witness ==
    /\ BothComputed
    /\ MarkerBesideModule(call.paths[1], call.paths[2])
    /\ Len(call.paths[1].dirs) = 2

\* ================================================== the extractor's code_body
\* parser.py:135 and 225: the longest body kept whole.
max_body == 10000

\* The body lengths examined reach MaxOver characters beyond the limit, as
\* many below it, and 0..MaxOver.
MaxOver == 30

\* parser.py:136 and 226: "\n... (truncated)", by its characters' code
\* points.
truncation_marker ==
    <<10, 46, 46, 46, 32, 40, 116, 114, 117, 110, 99, 97, 116, 101, 100, 41>>

\* A text of n characters, by their code points; the character depends on
\* its position, so that a text differs from its other prefixes and shifts.
SourceText(n) == [k \in 1..n |-> 97 + (k % 26)]

BodyLengths ==
    (0..MaxOver) \cup ((max_body - MaxOver)..(max_body + MaxOver))

\* Mutant of class_code_body: a body of exactly max_body characters is cut.
class_code_body_AtLimit(text) ==
    IF Len(text) >= max_body
    THEN SubSeq(text, 1, max_body) \o truncation_marker
    ELSE text

\* parser.py:133-136: the code_body of a class.
class_code_body(text) ==
    IF Len(text) > max_body
    THEN SubSeq(text, 1, max_body) \o truncation_marker
    ELSE text

\* parser.py:223-226: the code_body of a function or method.
function_code_body(text) ==
    IF Len(text) > max_body
    THEN SubSeq(text, 1, max_body) \o truncation_marker
    ELSE text

\* parser.py:134 and 224: code_for_node returned the text of a definition.
CodeBodyInit ==
    /\ NotStarted
    /\ call \in { [fn |-> "code_body", kind |-> kd, text |-> SourceText(n),
                   done |-> FALSE, out |-> <<>>] :
                  kd \in NodeKinds, n \in BodyLengths }

\* parser.py:133-136
ClassCodeBody ==
    /\ call.fn = "code_body"
    /\ call.kind = "ClassDef"
    /\ ~call.done
    /\ call' = [call EXCEPT !.done = TRUE, !.out = class_code_body(call.text)]
    /\ UNCHANGED run

\* parser.py:223-226
FunctionCodeBody ==
    /\ call.fn = "code_body"
    /\ call.kind = "FunctionDef"
    /\ ~call.done
    /\ call' = [call EXCEPT !.done = TRUE,
                            !.out = function_code_body(call.text)]
    /\ UNCHANGED run

CodeBodyNext == ClassCodeBody \/ FunctionCodeBody

CodeBodySpec == CodeBodyInit /\ [][CodeBodyNext]_vars

\* ---------------------------------------------------------------------- C17
\* C17: a class or function body of at most 10,000 characters is stored
\* unchanged; a longer one is stored as its first 10,000 characters followed
\* by the truncation marker, 10000 + len(marker) characters in all.
C17_BodyTruncation ==
    call.fn = "code_body" /\ call.done =>
        LET n == Len(call.text)
        IN  /\ n <= max_body => call.out = call.text
            /\ n > max_body =>
                  /\ Len(call.out) = max_body + Len(truncation_marker)
                  /\ SubSeq(call.out, 1, max_body)
                         = SubSeq(call.text, 1, max_body)
                  /\ SubSeq(call.out, max_body + 1, Len(call.out))
                         = truncation_marker

\* A class body of 10,001 characters has been stored, cut.
C17_Witness ==
    /\ call.fn = "code_body"
    /\ call.done
    /\ call.kind = "ClassDef"
    /\ Len(call.text) = max_body + 1
    /\ Len(call.out) > Len(call.text)

\* =============================================================== discover_files
\* A file or directory name, by pathlib's stem and suffix: "a.py" is
\* Name("a", ".py"), ".git" is Name(".git", "").
Name(stem, suffix) == [stem |-> stem, suffix |-> suffix]

\* discovery.py:13-29
DEFAULT_EXCLUDE_DIRS ==
    { Name(".git", ""), Name("__pycache__", ""), Name(".venv", ""),
      Name("venv", ""), Name("node_modules", ""), Name(".pytest_cache", ""),
      Name(".mypy_cache", ""), Name(".tox", ""), Name("dist", ""),
      Name("build", ""), Name("env", ""), Name(".eggs", ""),
      Name("*", ".egg-info"), Name(".ruff_cache", ""),
      Name(".hypothesis", "") }

\* discovery.py:31-32
PYTHON_EXTS == {".py"}
DOC_EXTS == {".md", ".rst", ".txt"}

\* discovery.py:33-42
CONFIG_FILES ==
    { Name("pyproject", ".toml"), Name("setup", ".py"), Name("setup", ".cfg"),
      Name("requirements", ".txt"), Name("Pipfile", ""),
      Name("poetry", ".lock"), Name("tox", ".ini"), Name("pytest", ".ini") }

\* The values of extra_excludes examined: None and ["src"].
ExtraExcludes == { {}, {Name("src", "")} }

\* The repository roots examined, by the parts of repo_path.
RepoRoots ==
    { <<Name("/", ""), Name("home", ""), Name("proj", "")>>,
      <<Name("/", ""), Name("build", ""), Name("proj", "")>> }

\* The directory and file names that occur below the root.
TreeDirNames == { Name("src", ""), Name("build", ""), Name("x", ".egg-info") }
TreeFileNames ==
    { Name("a", ".py"), Name("README", ".md"), Name("pyproject", ".toml"),
      Name("requirements", ".txt"), Name("data", ".bin"), Name("build", "") }

\* The repositories examined hold one file, in up to MaxDepth nested
\* directories; a tree is the file's path relative to the root.
Trees ==
    { d \o <<f>> :
        d \in UNION { [1..n -> TreeDirNames] : n \in 0..MaxDepth },
        f \in TreeFileNames }

\* discovery.py:60: what repo_path.rglob("*") yields for a tree: each
\* directory on the way down, then the file.
rglob(root, tree) ==
    [k \in 1..Len(tree) |->
        [parts |-> root \o SubSeq(tree, 1, k), is_file |-> k = Len(tree)]]

\* Mutant of in_excluded: only the directory that holds the entry is tested.
in_excluded_ParentOnly(parts, excludes) ==
    parts[Len(parts) - 1] \in excludes

\* discovery.py:62: any(excl in path.parts for excl in excludes)
in_excluded(parts, excludes) ==
    \E excl \in excludes : \E k \in 1..Len(parts) : parts[k] = excl

\* discovery.py:69-74: the kind of a file, "" when it is none of the three.
classify(name) ==
    IF name.suffix \in PYTHON_EXTS THEN "python"
    ELSE IF name.suffix \in DOC_EXTS THEN "documentation"
    ELSE IF name \in CONFIG_FILES THEN "configuration"
    ELSE ""

\* discovery.py:54-58: discover_files is called on a repository.
DiscoverInit ==
    /\ NotStarted
    /\ call \in { [fn |-> "discover_files", root |-> r, tree |-> t,
                   excludes |-> DEFAULT_EXCLUDE_DIRS \cup x,
                   entries |-> rglob(r, t), k |-> 0, files |-> <<>>] :
                  r \in RepoRoots, t \in Trees, x \in ExtraExcludes }

\* The entry the loop of discovery.py:60 is at.
current_entry == call.entries[call.k + 1]

InDiscoverLoop ==
    call.fn = "discover_files" /\ call.k < Len(call.entries)

\* discovery.py:62-63: the entry is skipped as excluded.
SkipExcluded ==
    /\ InDiscoverLoop
    /\ in_excluded(current_entry.parts, call.excludes)
    /\ call' = [call EXCEPT !.k = @ + 1]
    /\ UNCHANGED run

\* discovery.py:65-66: the entry is no file.
SkipDirectory ==
    /\ InDiscoverLoop
    /\ ~in_excluded(current_entry.parts, call.excludes)
    /\ ~current_entry.is_file
    /\ call' = [call EXCEPT !.k = @ + 1]
    /\ UNCHANGED run

\* discovery.py:68-74: the file is classified, and kept if it has a kind.
ClassifyFile ==
    /\ InDiscoverLoop
    /\ ~in_excluded(current_entry.parts, call.excludes)
    /\ current_entry.is_file
    /\ LET kind == classify(current_entry.parts[Len(current_entry.parts)])
       IN  call' = [call EXCEPT
                      !.k = @ + 1,
                      !.files = IF kind # ""
                                THEN Append(@, [path |-> current_entry.parts,
                                                kind |-> kind])
                                ELSE @]
    /\ UNCHANGED run

DiscoverNext == SkipExcluded \/ SkipDirectory \/ ClassifyFile

DiscoverSpec == DiscoverInit /\ [][DiscoverNext]_vars

\* ---------------------------------------------------------------------- C18
\* The directories a path lies inside: all its parts but the last.
DirectoriesOf(parts) == { parts[k] : k \in 1..(Len(parts) - 1) }

\* C18: discover_files returns no file that lies inside a directory whose
\* name is in the exclusion set (the defaults united with extra_excludes),
\* whatever the file's extension or name.
C18_ExcludedNeverReturned ==
    call.fn = "discover_files" =>
        \A k \in 1..Len(call.files) :
            DirectoriesOf(call.files[k].path) \cap call.excludes = {}

\* The listing of a repository is done in which a Python file lies in an
\* excluded directory that is itself inside a directory that is not
\* excluded; the file was not returned.
C18_Witness ==
    /\ call.fn = "discover_files"
    /\ call.k = Len(call.entries)
    /\ Len(call.tree) = 3
    /\ call.tree[1] \in call.excludes
    /\ call.tree[2] \notin call.excludes
    /\ classify(call.tree[3]) = "python"
    /\ ~in_excluded(call.root, call.excludes)
    /\ call.files = <<>>

\* ============================================================ the chunk texts
\* A text is the sequence of its pieces; a whitespace character is a piece of
\* its own, so that strip() and emptiness are what they are on strings.
Whitespace == {" ", "\n", "\t"}

RECURSIVE lstrip(_)
lstrip(text) ==
    IF text # <<>> /\ Head(text) \in Whitespace
    THEN lstrip(Tail(text)) ELSE text

RECURSIVE rstrip(_)
rstrip(text) ==
    IF text # <<>> /\ text[Len(text)] \in Whitespace
    THEN rstrip(SubSeq(text, 1, Len(text) - 1)) ELSE text

\* str.strip()
strip(text) == rstrip(lstrip(text))

\* [x for x in xs if x]
Truthy(xs) == SelectSeq(xs, LAMBDA x : x # <<>>)

CommaSpace == <<",", " ">>
BlankLine == <<"\n", "\n">>
Newline == <<"\n">>

\* The enrichment of a file whose analysis returned None.
NoEnrichment == [kind |-> "None"]

\* messages.py:119-123: the EmptyJediAnalysis object.
EmptyContainers ==
    [kind |-> "EmptyJediAnalysis",
     type_annotations |-> [key \in {} |-> <<>>],
     references |-> [key \in {} |-> <<>>]]

\* messages.py:118-123: a None enrichment is replaced by empty containers.
containers(jedi_analysis) ==
    IF jedi_analysis = NoEnrichment THEN EmptyContainers ELSE jedi_analysis

\* messages.py:136, 187 and 231: the non-empty inferred types of a key, <<>>
\* when the key has no annotation.
inferred(jedi_analysis, key) ==
    IF key \in DOMAIN jedi_analysis.type_annotations
    THEN Truthy(jedi_analysis.type_annotations[key].inferred_types)
    ELSE <<>>

\* messages.py:149-151, 196-198 and 244-246: the summary segment.
summary_text(summary_bits, placeholder) ==
    IF Join(Truthy(summary_bits), BlankLine) # <<>>
    THEN Join(Truthy(summary_bits), BlankLine)
    ELSE placeholder

\* Mutant of code_text: only an empty body, not a blank one, is replaced.
code_text_EmptyOnly(code_body, placeholder) ==
    IF code_body = <<>> THEN placeholder ELSE code_body

\* messages.py:158-160, 202-204 and 250-252: the code segment.
code_text(code_body, placeholder) ==
    IF strip(code_body) = <<>> THEN placeholder ELSE code_body

\* messages.py:130-131, 178-179 and 222-223
docstring_bits(entity) ==
    IF strip(entity.docstring) # <<>> THEN <<strip(entity.docstring)>>
    ELSE <<>>

\* messages.py:182-194 and 226-236: the inferred types of the parameters.
param_bits(fn, jedi_analysis) ==
    LET typed == SelectSeq(fn.parameters,
                     LAMBDA param :
                         inferred(jedi_analysis, fn.name \o Dot \o param)
                             # <<>>)
        param_info ==
            [k \in 1..Len(typed) |->
                typed[k] \o <<":", " ">>
                \o Join(inferred(jedi_analysis, fn.name \o Dot \o typed[k]),
                        CommaSpace)]
    IN  IF param_info # <<>>
        THEN << <<"Inferred parameter types:", "\n">>
                \o Join(param_info, Newline) >>
        ELSE <<>>

\* messages.py:238-242: the declared return type of a function.
return_bits(fn, jedi_analysis) ==
    LET return_key == fn.name \o <<".", "__return__">>
    IN  IF /\ return_key \in DOMAIN jedi_analysis.type_annotations
           /\ jedi_analysis.type_annotations[return_key].declared_type # <<>>
        THEN << <<"Return type:", " ">>
                \o jedi_analysis.type_annotations[return_key].declared_type >>
        ELSE <<>>

\* messages.py:133-147: the enrichment and decorator bits of a class.
class_bits(cls, module_path, jedi_analysis) ==
    LET cls_key == module_path \o Dot \o cls.name
    IN  (IF inferred(jedi_analysis, cls_key) # <<>>
         THEN << <<"Type hints:", " ">>
                 \o Join(inferred(jedi_analysis, cls_key), CommaSpace) >>
         ELSE <<>>)
        \o (IF cls_key \in DOMAIN jedi_analysis.references
            THEN << <<"Referenced", " ",
                      ToString(Len(jedi_analysis.references[cls_key])),
                      " ", "time(s) in codebase">> >>
            ELSE <<>>)
        \o (IF cls.decorators # <<>>
            THEN << <<"Decorators:", " ">>
                    \o Join(Truthy(cls.decorators), CommaSpace) >>
            ELSE <<>>)

CodeMessage(text_chunks, speaker, tags) ==
    [text_chunks |-> text_chunks, speaker |-> speaker, tags |-> tags]

\* messages.py:126-173: the chunk of a class.
class_message(cls, module_path, jedi_analysis) ==
    LET bases_str == IF cls.bases # <<>>
                     THEN <<"(">> \o Join(cls.bases, CommaSpace) \o <<")">>
                     ELSE <<>>
        signature_text == strip(<<"class", " ">> \o cls.name \o bases_str)
    IN  CodeMessage(
            << summary_text(docstring_bits(cls)
                              \o class_bits(cls, module_path, jedi_analysis),
                            <<"Class", " ">> \o cls.name
                              \o <<" ", "summary unavailable.">>),
               IF signature_text # <<>> THEN signature_text
               ELSE <<"class", " ">> \o cls.name,
               code_text(cls.code_body,
                         <<"class", " ">> \o cls.name
                           \o <<" ", "body unavailable.">>) >>,
            module_path \o <<":">> \o cls.name,
            << <<"class">>, <<"python">>, cls.name, module_path >>)

\* messages.py:200 and 248: x["signature"].strip() or x["name"]
signature_text_of(fn) ==
    IF strip(fn.signature) # <<>> THEN strip(fn.signature) ELSE fn.name

\* Mutant of method_message: a method without inferred types gets no
\* signature segment of its own.
method_message_NeedsTypes(method, cls, module_path, jedi_analysis) ==
    CodeMessage(
        << summary_text(docstring_bits(method)
                          \o param_bits(method, jedi_analysis),
                        <<"Method", " ">> \o method.name
                          \o <<" ", "summary unavailable.">>),
           IF param_bits(method, jedi_analysis) # <<>>
           THEN signature_text_of(method) ELSE method.name,
           code_text(method.code_body,
                     <<"Method", " ">> \o method.name
                       \o <<" ", "body unavailable.">>) >>,
        module_path \o <<":">> \o cls.name \o Dot \o method.name,
        << <<"method">>, <<"python">>, method.name, cls.name >>)

\* messages.py:176-217: the chunk of a method.
method_message(method, cls, module_path, jedi_analysis) ==
    CodeMessage(
        << summary_text(docstring_bits(method)
                          \o param_bits(method, jedi_analysis),
                        <<"Method", " ">> \o method.name
                          \o <<" ", "summary unavailable.">>),
           signature_text_of(method),
           code_text(method.code_body,
                     <<"Method", " ">> \o method.name
                       \o <<" ", "body unavailable.">>) >>,
        module_path \o <<":">> \o cls.name \o Dot \o method.name,
        << <<"method">>, <<"python">>, method.name, cls.name >>)

\* messages.py:220-265: the chunk of a top-level function.
function_message(func, module_path, jedi_analysis) ==
    CodeMessage(
        << summary_text(docstring_bits(func)
                          \o param_bits(func, jedi_analysis)
                          \o return_bits(func, jedi_analysis),
                        <<"Function", " ">> \o func.name
                          \o <<" ", "summary unavailable.">>),
           signature_text_of(func),
           code_text(func.code_body,
                     <<"Function", " ">> \o func.name
                       \o <<" ", "body unavailable.">>) >>,
        module_path \o <<":">> \o func.name,
        << <<"function">>, <<"python">>, func.name, module_path >>)

\* messages.py:99-267: create_entity_messages_with_jedi, with the chunks'
\* contents: per class its chunk and then its methods' chunks, then the
\* functions' chunks.
entity_messages(parsed, jedi_analysis) ==
    Concat([c \in 1..Len(parsed.classes) |->
              <<class_message(parsed.classes[c], parsed.module_path,
                              containers(jedi_analysis))>>
              \o [m \in 1..Len(parsed.classes[c].methods) |->
                    method_message(parsed.classes[c].methods[m],
                                   parsed.classes[c], parsed.module_path,
                                   containers(jedi_analysis))]])
    \o [f \in 1..Len(parsed.functions) |->
          function_message(parsed.functions[f], parsed.module_path,
                           containers(jedi_analysis))]

\* messages.py:52: the longest module source kept whole.
max_source == 50000

\* messages.py:51-55: the code segment of a module; the source is a text
\* whose pieces are its characters.
module_code_text(source_code) ==
    code_text(IF Len(source_code) > max_source
              THEN SubSeq(source_code, 1, max_source)
                   \o <<"\n", ".", ".", ".", " ", "(truncated)">>
              ELSE source_code,
              <<"Module source unavailable.">>)

\* messages.py:23-66: create_module_message, with the chunk's contents.
module_message(parsed, project_name) ==
    LET class_names == [c \in 1..Len(parsed.classes) |->
                           parsed.classes[c].name]
        func_names == [f \in 1..Len(parsed.functions) |->
                          parsed.functions[f].name]
        overview_parts ==
            (IF class_names # <<>>
             THEN << <<"Classes:", " ">> \o Join(class_names, CommaSpace) >>
             ELSE <<>>)
            \o (IF func_names # <<>>
                THEN << <<"Functions:", " ">>
                        \o Join(func_names, CommaSpace) >>
                ELSE <<>>)
        detail_sections ==
            (IF parsed.imports # <<>>
             THEN << <<"Imports:", "\n">> \o Join(parsed.imports, Newline) >>
             ELSE <<>>)
            \o (IF overview_parts # <<>>
                THEN << <<"Overview:", "\n">>
                        \o Join(overview_parts, Newline) >>
                ELSE <<>>)
        detail_text ==
            Join(SelectSeq(detail_sections, LAMBDA s : strip(s) # <<>>),
                 BlankLine)
    IN  CodeMessage(
            << IF parsed.module_docstring # <<>>
               THEN <<"Module docstring:", "\n">>
                    \o strip(parsed.module_docstring)
               ELSE <<"Module docstring: (none provided)">>,
               IF detail_text # <<>> THEN detail_text
               ELSE <<"No imports or symbol overview available.">>,
               module_code_text(parsed.source_code) >>,
            IF parsed.module_path # <<>> THEN parsed.module_path
            ELSE parsed.file_path,
            << <<"module">>, <<"python">>, project_name >>)

\* ------------------------------------------------ the parsed files examined
ModulePath == <<"pkg", ".", "mod">>
FilePath == <<"pkg/mod.py">>

Docstrings == { <<>>, <<" ", "\n">>, <<" ", "Doc", " ", "text.", "\n">> }
ClassBodies == { <<>>, <<" ", "\n">>, <<"class", " ", "C:", "\n", " ", "x = 1">> }
FunctionBodies == { <<" ">>, <<"def", " ", "f(x):", "\n", " ", "return x">> }
Signatures == { <<" ">>, <<"def", " ", "f(x)">> }
ParameterLists == { <<>>, << <<"x">> >> }

\* models.py:97-108 and parser.py:138-146: the fields of a class entity that
\* the chunks are built from, but for its name and methods.
ClassAttrs ==
    [docstring : Docstrings, bases : { <<>>, << <<"Base">>, <<"abc.ABC">> >> },
     decorators : { <<>>, << <<"dataclass">> >> }, code_body : ClassBodies]

\* parser.py:228-237: likewise for a function or method entity.
FunctionAttrs ==
    [docstring : Docstrings, signature : Signatures,
     parameters : ParameterLists, code_body : FunctionBodies]

MethodNames == << <<"m">>, <<"n">>, <<"o">> >>

FunctionOf(name, attrs) ==
    [name |-> name, docstring |-> attrs.docstring,
     signature |-> attrs.signature, parameters |-> attrs.parameters,
     code_body |-> attrs.code_body]

ClassOf(name, attrs, methods) ==
    [name |-> name, docstring |-> attrs.docstring, bases |-> attrs.bases,
     decorators |-> attrs.decorators, methods |-> methods,
     code_body |-> attrs.code_body]

\* models.py:97-108: a ParsedPython.
ParsedPython(docstring, imports, classes, functions, source_code) ==
    [file_path |-> FilePath, module_path |-> ModulePath,
     module_docstring |-> docstring, imports |-> imports,
     classes |-> classes, functions |-> functions,
     source_code |-> source_code]

\* The parsed files whose entity chunks are examined: at most one class, of
\* up to MaxMethods methods, and at most one function; the methods and the
\* function have the same attributes.
ParsedEntities ==
    { ParsedPython(<<>>, <<>>,
                   [c \in 1..nc |->
                      ClassOf(<<"C">>, ca,
                              [m \in 1..nm |-> FunctionOf(MethodNames[m], fa)])],
                   [f \in 1..nf |-> FunctionOf(<<"f">>, fa)],
                   <<>>) :
        nc \in 0..1, nm \in 0..MaxMethods, nf \in 0..1,
        ca \in ClassAttrs, fa \in FunctionAttrs }

\* A source text of n characters.
SourceChars(n) == [k \in 1..n |-> "x"]

PlainClass == ClassOf(<<"C">>, CHOOSE ca \in ClassAttrs : ca.bases = <<>>, <<>>)
PlainFunction ==
    FunctionOf(<<"f">>, CHOOSE fa \in FunctionAttrs : fa.parameters = <<>>)

\* The parsed files whose module chunk is examined.
ParsedModules ==
    { ParsedPython(d, im, cl, fu, src) :
        d \in Docstrings, im \in { <<>>, << <<"import os">> >> },
        cl \in { <<>>, <<PlainClass>> }, fu \in { <<>>, <<PlainFunction>> },
        src \in { <<>>, <<" ", "\n">>, SourceChars(2) } }
    \cup
    { ParsedPython(<<>>, <<>>, <<>>, <<>>, SourceChars(n)) :
        n \in { max_source, max_source + 1 } }

\* The keys jedi_analyzer.py:57-116 and 132-186 can hold for a parsed file.
ClassKeys(parsed) ==
    { parsed.module_path \o Dot \o parsed.classes[c].name :
        c \in 1..Len(parsed.classes) }

AllFunctions(parsed) ==
    Concat([c \in 1..Len(parsed.classes) |-> parsed.classes[c].methods])
    \o parsed.functions

TypeKeys(parsed) ==
    ClassKeys(parsed)
    \cup UNION { { AllFunctions(parsed)[k].name \o <<".", "__return__">> }
                 \cup { AllFunctions(parsed)[k].name \o Dot
                          \o AllFunctions(parsed)[k].parameters[p] :
                        p \in 1..Len(AllFunctions(parsed)[k].parameters) } :
                 k \in 1..Len(AllFunctions(parsed)) }

\* jedi_analyzer.py:19-31: the enrichments examined for a parsed file: None,
\* one without entries, one with a type and two references for every key,
\* and one whose entries hold no type and no reference.
JediAnalyses(parsed) ==
    { NoEnrichment,
      [kind |-> "JediAnalysis",
       type_annotations |-> [key \in {} |-> <<>>],
       references |-> [key \in {} |-> <<>>]],
      [kind |-> "JediAnalysis",
       type_annotations |->
           [key \in TypeKeys(parsed) |->
               [declared_type |-> <<"int">>,
                inferred_types |-> << <<"int">>, <<>>, <<"str">> >>]],
       references |-> [key \in ClassKeys(parsed) |-> <<"ref", "ref">>]],
      [kind |-> "JediAnalysis",
       type_annotations |->
           [key \in TypeKeys(parsed) |->
               [declared_type |-> <<>>, inferred_types |-> << <<>> >>]],
       references |-> [key \in ClassKeys(parsed) |-> <<>>]] }

Populated(jedi_analysis) ==
    /\ jedi_analysis # NoEnrichment
    /\ \E key \in DOMAIN jedi_analysis.type_annotations :
           jedi_analysis.type_annotations[key].declared_type # <<>>

\* runner.py:211 and 216-219: the message creation loop is at a parsed file.
MessageInit ==
    /\ NotStarted
    /\ call \in
         { [fn |-> "create_module_message", parsed |-> p,
            jedi_analysis |-> NoEnrichment, project_name |-> <<"proj">>,
            done |-> FALSE, all_messages |-> <<>>] : p \in ParsedModules }
         \cup
         UNION { { [fn |-> "create_entity_messages_with_jedi", parsed |-> p,
                    jedi_analysis |-> j, project_name |-> <<"proj">>,
                    done |-> FALSE, all_messages |-> <<>>] :
                   j \in JediAnalyses(p) } : p \in ParsedEntities }

\* runner.py:212-214
CreateModuleMessage ==
    /\ call.fn = "create_module_message"
    /\ ~call.done
    /\ LET module_msg == module_message(call.parsed, call.project_name)
       IN  call' = [call EXCEPT
                      !.done = TRUE,
                      !.all_messages =
                          IF module_msg.text_chunks # <<>>
                          THEN Append(@, module_msg) ELSE @]
    /\ UNCHANGED run

\* runner.py:216-224
CreateEntityMessages ==
    /\ call.fn = "create_entity_messages_with_jedi"
    /\ ~call.done
    /\ call' = [call EXCEPT
                  !.done = TRUE,
                  !.all_messages =
                      @ \o SelectSeq(entity_messages(call.parsed,
                                                     call.jedi_analysis),
                                     LAMBDA msg : msg.text_chunks # <<>>)]
    /\ UNCHANGED run

MessageNext == CreateModuleMessage \/ CreateEntityMessages

MessageSpec == MessageInit /\ [][MessageNext]_vars

\* ---------------------------------------------------------------------- C19
\* The entity chunks of a parsed file have been created.
EntityChunksCreated ==
    call.fn = "create_entity_messages_with_jedi" /\ call.done

\* The classes, methods and functions of a parsed file, in source order with
\* the methods after their class and the functions last.
Entities(parsed) ==
    Concat([c \in 1..Len(parsed.classes) |->
              <<[kind |-> "class", entity |-> parsed.classes[c]]>>
              \o [m \in 1..Len(parsed.classes[c].methods) |->
                    [kind |-> "method",
                     entity |-> parsed.classes[c].methods[m]]]])
    \o [f \in 1..Len(parsed.functions) |->
          [kind |-> "function", entity |-> parsed.functions[f]]]

\* Two chunks agree in all but their first segment.
SameButSummary(a, b) ==
    /\ a.speaker = b.speaker
    /\ a.tags = b.tags
    /\ Len(a.text_chunks) = Len(b.text_chunks)
    /\ \A s \in 2..Len(a.text_chunks) : a.text_chunks[s] = b.text_chunks[s]

\* C19: whatever the enrichment (None, empty or populated), the chunks of a
\* parsed file are one per class, method and function, in the same order,
\* and agree with the chunks built without enrichment and with an empty
\* enrichment in speaker, tags, second and third segment.
C19_EnrichmentOnlyInSummary ==
    EntityChunksCreated =>
        LET with == call.all_messages
            absent == entity_messages(call.parsed, NoEnrichment)
            empty == entity_messages(call.parsed,
                                     [EmptyContainers EXCEPT
                                         !.kind = "JediAnalysis"])
        IN  /\ Len(with) = Len(Entities(call.parsed))
            /\ Len(absent) = Len(with)
            /\ Len(empty) = Len(with)
            /\ \A k \in 1..Len(with) :
                  /\ with[k].tags[1] = <<Entities(call.parsed)[k].kind>>
                  /\ Len(with[k].text_chunks) = 3
                  /\ SameButSummary(with[k], absent[k])
                  /\ SameButSummary(with[k], empty[k])
                  /\ absent[k] = empty[k]

\* The chunks of a class, its method and a function were built with a
\* populated enrichment, and each differs in its summary from the chunk
\* built without enrichment.
C19_Witness ==
    /\ EntityChunksCreated
    /\ Populated(call.jedi_analysis)
    /\ Len(call.all_messages) = 3
    /\ call.parsed.functions # <<>>
    /\ \A k \in 1..3 :
          call.all_messages[k].text_chunks[1]
              # entity_messages(call.parsed, NoEnrichment)[k].text_chunks[1]

\* ---------------------------------------------------------------------- C20
\* The first pieces of a text.
StartsWith(text, prefix) ==
    /\ Len(text) >= Len(prefix)
    /\ SubSeq(text, 1, Len(prefix)) = prefix

\* C20: every chunk built for a module, class, method or function and kept
\* for the index has exactly three segments, each non-empty after trimming:
\* first the summary, which opens with the docstring when there is one, then
\* the overview (module) or signature, then the code, verbatim when there
\* is any.
C20_ThreeSegments ==
    /\ call.fn \in {"create_module_message",
                    "create_entity_messages_with_jedi"} =>
          \A k \in 1..Len(call.all_messages) :
              /\ Len(call.all_messages[k].text_chunks) = 3
              /\ \A s \in 1..3 :
                     strip(call.all_messages[k].text_chunks[s]) # <<>>
    /\ EntityChunksCreated =>
          /\ Len(call.all_messages) = Len(Entities(call.parsed))
          /\ \A k \in 1..Len(call.all_messages) :
                LET e == Entities(call.parsed)[k].entity
                    kind == Entities(call.parsed)[k].kind
                    chunks == call.all_messages[k].text_chunks
                IN  /\ strip(e.docstring) # <<>> =>
                           StartsWith(chunks[1], strip(e.docstring))
                    /\ kind = "class" =>
                           StartsWith(chunks[2], <<"class", " ">> \o e.name)
                    /\ kind # "class" /\ strip(e.signature) # <<>> =>
                           chunks[2] = strip(e.signature)
                    /\ strip(e.code_body) # <<>> => chunks[3] = e.code_body
    /\ call.fn = "create_module_message" /\ call.done =>
          /\ Len(call.all_messages) = 1
          /\ LET chunks == call.all_messages[1].text_chunks
                 src == call.parsed.source_code
             IN  /\ StartsWith(chunks[1], <<"Module docstring:">>)
                    \/ chunks[1] = <<"Module docstring: (none provided)">>
                 /\ strip(call.parsed.module_docstring) # <<>> =>
                        chunks[1] = <<"Module docstring:", "\n">>
                                    \o strip(call.parsed.module_docstring)
                 /\ strip(src) # <<>> /\ Len(src) <= max_source =>
                        chunks[3] = src
                 /\ Len(src) > max_source =>
                        StartsWith(chunks[3], SubSeq(src, 1, max_source))

\* The chunks of a class without docstring and with a blank body, and of its
\* method with a blank signature and body, were built without enrichment:
\* placeholders stand in for the missing parts.
C20_Witness ==
    /\ EntityChunksCreated
    /\ call.jedi_analysis = NoEnrichment
    /\ Len(call.all_messages) >= 2
    /\ \E c \in 1..Len(call.parsed.classes) :
          /\ call.parsed.classes[c].docstring = <<>>
          /\ call.parsed.classes[c].decorators = <<>>
          /\ strip(call.parsed.classes[c].code_body) = <<>>
          /\ call.parsed.classes[c].code_body # <<>>
          /\ call.parsed.classes[c].methods # <<>>
          /\ strip(call.parsed.classes[c].methods[1].signature) = <<>>
          /\ strip(call.parsed.classes[c].methods[1].code_body) = <<>>

\* ================================================= assembling a file twice
\* Mutant of parsed_after_assembly: the functions are consumed from the list.
parsed_after_assembly_Consumed(parsed) == [parsed EXCEPT !.functions = <<>>]

\* messages.py:23-66 and 99-267: what the two functions leave of the parsed
\* file they are given: they read its fields and assign to locals only.
parsed_after_assembly(parsed) == parsed

\* messages.py:118-123: the rebinding of jedi_analysis is local; the
\* caller's enrichment is only read.
jedi_after_assembly(jedi_analysis) == jedi_analysis

\* runner.py:211-219: a parsed file and its enrichment are about to be
\* assembled, twice over.
AssembleInit ==
    /\ NotStarted
    /\ call \in
         UNION { { [fn |-> "assemble", given |-> <<p, j>>, parsed |-> p,
                    jedi_analysis |-> j, project_name |-> <<"proj">>,
                    runs |-> <<>>] :
                   j \in JediAnalyses(p) } : p \in ParsedEntities }

\* runner.py:212-219: create_module_message and
\* create_entity_messages_with_jedi on the file as the previous calls left
\* it.
Assemble ==
    /\ call.fn = "assemble"
    /\ Len(call.runs) < 2
    /\ call' = [call EXCEPT
                  !.runs = Append(@, <<module_message(call.parsed,
                                                      call.project_name)>>
                                     \o entity_messages(call.parsed,
                                                        call.jedi_analysis)),
                  !.parsed = parsed_after_assembly(@),
                  !.jedi_analysis = jedi_after_assembly(@)]
    /\ UNCHANGED run

AssembleSpec == AssembleInit /\ [][Assemble]_vars

MaxTasks == 3

\* What the file system holds for the python files of a repository: whether
\* the file parses and whether jedi returns an analysis of it.
TaskFiles ==
    { [parses |-> FALSE, jedi |-> FALSE], [parses |-> TRUE, jedi |-> FALSE],
      [parses |-> TRUE, jedi |-> TRUE] }

\* The slot of a task that has not completed.
Pending == [ok |-> FALSE, file_path |-> 0]

\* runner.py:123: the coroutine parse_python_file(path, repo_path), by what
\* it returns when it completes: the ParsedPython of that path, or None.
parse_task(fs, path) == [ok |-> fs[path].parses, file_path |-> path]

\* runner.py:160-163: the coroutine analyze_python_file_with_jedi(file_path,
\* repo_path, parsed), by what it returns: an analysis of that path, or None.
jedi_task(fs, entry) ==
    [ok |-> fs[entry.source].jedi, file_path |-> entry.source]

\* Mutant of gather: the results come in the order the tasks completed.
gather_AsCompleted(slots, order) == [k \in DOMAIN slots |-> slots[order[k]]]

\* runner.py:125 and 165: asyncio.gather returns the results in the order of
\* the awaitables it was given, whatever order they completed in.
gather(slots, order) == slots

RECURSIVE parsed_entries(_, _, _)
\* runner.py:129-130: all_parsed.append((python_files[i], result)) for the
\* results that are not None, from index k on.
parsed_entries(paths, results, k) ==
    IF k > Len(results) THEN <<>>
    ELSE IF results[k].ok
         THEN <<[source |-> paths[k], parsed |-> results[k]]>>
              \o parsed_entries(paths, results, k + 1)
         ELSE parsed_entries(paths, results, k + 1)

RECURSIVE failure_entries(_, _, _)
\* runner.py:131-132: failures.append((str(python_files[i]), "Parse
\* failed")) for the results that are None, from index k on.
failure_entries(paths, results, k) ==
    IF k > Len(results) THEN <<>>
    ELSE IF results[k].ok
         THEN failure_entries(paths, results, k + 1)
         ELSE <<paths[k]>> \o failure_entries(paths, results, k + 1)

\* runner.py:122-123: the python files are found and a task is made for
\* each; none has completed.
GatherInit ==
    /\ NotStarted
    /\ call \in
         UNION { { [fn |-> "gather", files |-> fs, stage |-> "parsing",
                    python_files |-> [k \in 1..n |-> k],
                    slots |-> [k \in 1..n |-> Pending],
                    parse_order |-> <<>>, jedi_order |-> <<>>,
                    all_parsed |-> <<>>, failures |-> <<>>,
                    all_jedi_analyses |-> <<>>, assembled |-> <<>>] :
                   fs \in [1..n -> TaskFiles] } : n \in 0..MaxTasks }

\* A parse task completes, in any order among those still running.
ParseTaskCompletes ==
    /\ call.fn = "gather"
    /\ call.stage = "parsing"
    /\ \E k \in DOMAIN call.slots \ Range(call.parse_order) :
          call' = [call EXCEPT
                     !.parse_order = Append(@, k),
                     !.slots[k] = parse_task(call.files,
                                             call.python_files[k])]
    /\ UNCHANGED run

\* runner.py:125-163: every parse task has completed: the result loop, then
\* the enrichment tasks when a file parsed.
GatherParseResults ==
    /\ call.fn = "gather"
    /\ call.stage = "parsing"
    /\ Len(call.parse_order) = Len(call.slots)
    /\ LET results == gather(call.slots, call.parse_order)
           parsed == parsed_entries(call.python_files, results, 1)
       IN call' = [call EXCEPT
                     !.all_parsed = parsed,
                     !.failures =
                         failure_entries(call.python_files, results, 1),
                     !.slots = [k \in 1..Len(parsed) |-> Pending],
                     !.stage = IF parsed # <<>> THEN "type_analysis"
                               ELSE "message_creation"]
    /\ UNCHANGED run

\* An enrichment task completes, in any order among those still running.
JediTaskCompletes ==
    /\ call.fn = "gather"
    /\ call.stage = "type_analysis"
    /\ \E k \in DOMAIN call.slots \ Range(call.jedi_order) :
          call' = [call EXCEPT
                     !.jedi_order = Append(@, k),
                     !.slots[k] = jedi_task(call.files, call.all_parsed[k])]
    /\ UNCHANGED run

\* runner.py:165-169: every enrichment task has completed: the result loop
\* appends each result to all_jedi_analyses.
GatherJediResults ==
    /\ call.fn = "gather"
    /\ call.stage = "type_analysis"
    /\ Len(call.jedi_order) = Len(call.slots)
    /\ call' = [call EXCEPT
                  !.all_jedi_analyses = gather(call.slots, call.jedi_order),
                  !.stage = "message_creation"]
    /\ UNCHANGED run

\* runner.py:207-219: the message loop pairs all_parsed[i] with
\* all_jedi_analyses[i].
PairForMessages ==
    /\ call.fn = "gather"
    /\ call.stage = "message_creation"
    /\ call' = [call EXCEPT
                  !.assembled =
                      [k \in 1..Len(call.all_parsed) |->
                         [parsed |-> call.all_parsed[k].parsed,
                          jedi_analysis |-> call.all_jedi_analyses[k]]],
                  !.stage = "done"]
    /\ UNCHANGED run

GatherNext ==
    \/ ParseTaskCompletes
    \/ GatherParseResults
    \/ JediTaskCompletes
    \/ GatherJediResults
    \/ PairForMessages

GatherSpec == GatherInit /\ [][GatherNext]_vars

\* ---------------------------------------------------------------------- C22
\* C22: whatever order the tasks complete in, each parse result is attributed
\* to the source file it was computed from (parsed files and failures each in
\* source order), and at message creation the enrichment list is as long as
\* the parsed list with its i-th element computed from the i-th parsed file.
C22_ResultsByIndex ==
    call.fn = "gather" =>
        /\ call.stage # "parsing" =>
              /\ \A k \in DOMAIN call.all_parsed :
                    /\ call.all_parsed[k].parsed.file_path
                          = call.all_parsed[k].source
                    /\ call.files[call.all_parsed[k].source].parses
                    /\ \A l \in DOMAIN call.all_parsed :
                          k < l => call.all_parsed[k].source
                                      < call.all_parsed[l].source
              /\ Range(call.failures)
                    = { p \in DOMAIN call.files : ~call.files[p].parses }
              /\ Len(call.all_parsed) + Len(call.failures)
                    = Len(call.files)
        /\ call.stage \in {"message_creation", "done"} =>
              /\ Len(call.all_jedi_analyses) = Len(call.all_parsed)
              /\ \A k \in DOMAIN call.all_parsed :
                    call.all_jedi_analyses[k].file_path
                       = call.all_parsed[k].source
        /\ call.stage = "done" =>
              /\ Len(call.assembled) = Len(call.all_parsed)
              /\ \A k \in DOMAIN call.assembled :
                    call.assembled[k].jedi_analysis.file_path
                       = call.assembled[k].parsed.file_path

\* Two files parsed although the later one's tasks completed first, in both
\* stages, and one file failed to parse.
C22_Witness ==
    /\ call.fn = "gather"
    /\ call.stage = "done"
    /\ Len(call.all_parsed) >= 2
    /\ call.failures # <<>>
    /\ call.parse_order[1] # 1
    /\ call.jedi_order[1] # 1


\* ============================================ the chunks of a run's files
ClassNames == << <<"C">>, <<"D">> >>
FunctionNames == << <<"f">>, <<"g">> >>
ModulePaths == << <<"a">>, <<"pkg", ".", "b">> >>

\* The parsed files whose chunk order is examined: up to two classes, each
\* of up to MaxMethods methods, and up to two top-level functions.
ParsedOrdered ==
    { ParsedPython(<<>>, <<>>,
                   [c \in 1..Len(ms) |->
                      ClassOf(ClassNames[c], PlainClass,
                              [m \in 1..ms[c] |->
                                 FunctionOf(MethodNames[m], PlainFunction)])],
                   [f \in 1..nf |->
                      FunctionOf(FunctionNames[f], PlainFunction)],
                   <<>>) :
        ms \in UNION { [1..nc -> 0..MaxMethods] : nc \in 0..2 },
        nf \in 0..2 }

\* Mutant of appended_messages: the class chunks come first, then the
\* methods' chunks.
appended_messages_ClassesFirst(parsed, jedi_analysis, project_name) ==
    <<module_message(parsed, project_name)>>
    \o [c \in 1..Len(parsed.classes) |->
          class_message(parsed.classes[c], parsed.module_path,
                        containers(jedi_analysis))]
    \o Concat([c \in 1..Len(parsed.classes) |->
                 [m \in 1..Len(parsed.classes[c].methods) |->
                    method_message(parsed.classes[c].methods[m],
                                   parsed.classes[c], parsed.module_path,
                                   containers(jedi_analysis))]])
    \o [f \in 1..Len(parsed.functions) |->
          function_message(parsed.functions[f], parsed.module_path,
                           containers(jedi_analysis))]

\* runner.py:211-224: what one iteration of the message loop appends to
\* all_messages: the module message and the entity messages, those whose
\* text_chunks list is empty left out.
appended_messages(parsed, jedi_analysis, project_name) ==
    SelectSeq(<<module_message(parsed, project_name)>>
                \o entity_messages(parsed, jedi_analysis),
              LAMBDA msg : msg.text_chunks # <<>>)

\* runner.py:207: the message loop is about to run over all_parsed.
FileChunksInit ==
    /\ NotStarted
    /\ call \in
         UNION { { [fn |-> "message_loop",
                    all_parsed |->
                        [k \in 1..n |->
                           [ps[k] EXCEPT !.module_path = ModulePaths[k]]],
                    i |-> 0, project_name |-> <<"proj">>,
                    all_messages |-> <<>>] :
                   ps \in [1..n -> ParsedOrdered] } : n \in 1..2 }

\* runner.py:207-224: one iteration of the message loop.
AppendFileMessages ==
    /\ call.fn = "message_loop"
    /\ call.i < Len(call.all_parsed)
    /\ call' = [call EXCEPT
                  !.all_messages =
                      @ \o appended_messages(call.all_parsed[call.i + 1],
                                             NoEnrichment, call.project_name),
                  !.i = @ + 1]
    /\ UNCHANGED run

FileChunksSpec == FileChunksInit /\ [][AppendFileMessages]_vars

\* The speakers of the chunks of a class: the class, then its methods.
ClassSpeakers(cls, module_path) ==
    <<module_path \o <<":">> \o cls.name>>
    \o [m \in 1..Len(cls.methods) |->
          module_path \o <<":">> \o cls.name \o Dot \o cls.methods[m].name]

RECURSIVE ExpectedSpeakers(_, _)
\* The speakers of the chunks of the classes from index c on, then of the
\* functions.
ExpectedSpeakers(parsed, c) ==
    IF c <= Len(parsed.classes)
    THEN ClassSpeakers(parsed.classes[c], parsed.module_path)
         \o ExpectedSpeakers(parsed, c + 1)
    ELSE [f \in 1..Len(parsed.functions) |->
            parsed.module_path \o <<":">> \o parsed.functions[f].name]

NumChunks(parsed) ==
    1 + Len(parsed.classes)
      + SumSeq([c \in 1..Len(parsed.classes) |->
                  Len(parsed.classes[c].methods)])
      + Len(parsed.functions)

\* The chunks appended before the file at index k is reached.
ChunksBefore(k) ==
    SumSeq([j \in 1..(k - 1) |-> NumChunks(call.all_parsed[j])])

\* ---------------------------------------------------------------------- C23
\* C23: for a parsed file with C classes, M methods and F functions the run
\* appends exactly 1 + C + M + F chunks, in the order module, then per class
\* in source order the class chunk followed immediately by its methods'
\* chunks, then the functions'; chunks of different files are not
\* interleaved.
C23_ChunkOrder ==
    call.fn = "message_loop" =>
        /\ Len(call.all_messages) = ChunksBefore(call.i + 1)
        /\ \A k \in 1..call.i :
              LET parsed == call.all_parsed[k]
                  chunks == SubSeq(call.all_messages, ChunksBefore(k) + 1,
                                   ChunksBefore(k + 1))
              IN  /\ chunks[1].tags[1] = <<"module">>
                  /\ [n \in 1..Len(chunks) |-> chunks[n].speaker]
                        = <<parsed.module_path>>
                          \o ExpectedSpeakers(parsed, 1)

\* Two files have been assembled, the first with two classes that both have
\* methods and with a function.
C23_Witness ==
    /\ call.fn = "message_loop"
    /\ call.i = 2
    /\ Len(call.all_parsed[1].classes) = 2
    /\ \A c \in 1..2 : call.all_parsed[1].classes[c].methods # <<>>
    /\ call.all_parsed[1].functions # <<>>
    /\ Len(call.all_messages) >= 7


\* ====================================================== the call edges
\* A call whose callee is a name or a dotted attribute, and a call of any
\* other expression.
CallKinds == {"Call", "CallOther"}

\* The syntax trees examined for call edges: the trees of definitions with
\* call expressions among the nodes; a call holds no definition.
CallTrees ==
    UNION { { t \in [kind : [1..n -> NodeKinds \cup CallKinds],
                     parent : [1..n -> 0..n]] :
                \A k \in 1..n :
                    /\ t.parent[k] < k
                    /\ k > 1 => IsEnclosedBy(t.parent, k - 1, t.parent[k])
                    /\ t.parent[k] # 0 =>
                          t.kind[t.parent[k]] \in NodeKinds } :
            n \in 0..MaxNodes }

\* parser.py:23-31 and 293-295: a fresh PythonExtractor, its calls list
\* empty, about to be taken through a tree with call expressions.
CallInit ==
    /\ NotStarted
    /\ call \in { [fn |-> "extract", tree |-> t, next |-> 1, open |-> <<>>,
                   classes |-> <<>>, functions |-> <<>>,
                   class_stack |-> <<>>, function_stack |-> <<>>,
                   calls |-> <<>>] :
                  t \in CallTrees }

\* parser.py:263-269: the caller id, None (<<>>) outside every function:
\* the name of the innermost open class, if any, and of the innermost open
\* function.
caller_id ==
    IF call.function_stack # <<>>
    THEN IF call.class_stack # <<>>
         THEN << [class |-> call.classes[Top(call.class_stack)].name,
                  function |-> Top(call.function_stack)] >>
         ELSE << [class |-> 0, function |-> Top(call.function_stack)] >>
    ELSE <<>>

\* parser.py:253-279: visit_Call; the line of a node is its number in the
\* traversal, never 0.
visit_Call ==
    /\ \E kind \in CallKinds : Enters(kind)
    /\ call' = [call EXCEPT
                  !.calls =
                      IF call.tree.kind[call.next] = "Call"
                         /\ caller_id # <<>> /\ call.next # 0
                      THEN Append(@, [caller |-> caller_id[1],
                                      line |-> call.next])
                      ELSE @,
                  !.next = @ + 1]
    /\ UNCHANGED run

CallNext ==
    \/ visit_ClassDef
    \/ leave_ClassDef
    \/ visit_FunctionDef
    \/ leave_FunctionDef
    \/ visit_Call

CallSpec == CallInit /\ [][CallNext]_vars

\* The caller of an edge is a method in the methods list of the class it
\* names, or a function in the top-level functions list.
CallerIsTracked(edge) ==
    IF edge.caller.class = 0
    THEN edge.caller.function \in Range(call.functions)
    ELSE \E c \in DOMAIN call.classes :
            /\ call.classes[c].name = edge.caller.class
            /\ edge.caller.function \in Range(call.classes[c].methods)

\* ---------------------------------------------------------------------- C24
\* C24: a call edge is recorded only for a call expression inside a function
\* or method definition, never for one at module level or directly in a
\* class body, and its caller id names a method in that class's methods
\* list or a function in the top-level functions list.
C24_EdgesInsideFunctions ==
    (call.fn = "extract" /\ "calls" \in DOMAIN call) =>
        \A e \in DOMAIN call.calls :
            LET edge == call.calls[e]
                holder == call.tree.parent[edge.line]
            IN  /\ holder # 0
                /\ call.tree.kind[holder] = "FunctionDef"
                /\ CallerIsTracked(edge)


\* ==================================================== the progress cadence
MaxResults == 51

\* Mutant of reports: an event after every result.
reports_EveryResult(every, done, total) == TRUE

\* runner.py:135 and 172: `(i + 1) % N == 0 or i == len(...) - 1`, with
\* done = i + 1 the number of results handled so far.
reports(every, done, total) == done % every = 0 \/ done - 1 = total - 1

\* runner.py:135 and 172: the cadence of a stage.
cadence(stage) ==
    IF stage = "parsing" THEN parse_report_every ELSE report_every

\* runner.py:122-125: the parse results have been gathered: python_files
\* source files, of which parsed gave a ParsedPython (one may have failed).
CadenceInit ==
    /\ NotStarted
    /\ call \in
         UNION { { [fn |-> "report", stage |-> "parsing", python_files |-> n,
                    all_parsed |-> m, i |-> 0, parsing |-> <<>>,
                    type_analysis |-> <<>>] :
                   m \in { n, n - 1 } \cap Nat } : n \in 0..MaxResults }

\* The number of results the loop of the stage runs over.
results_of(stage) ==
    IF stage = "parsing" THEN call.python_files ELSE call.all_parsed

\* runner.py:125-144 and 165-181: one iteration of the result loop of the
\* stage: the poll, then the result, then the event when one is due.
ResultLoop ==
    /\ call.fn = "report"
    /\ call.stage \in {"parsing", "type_analysis"}
    /\ call.i < results_of(call.stage)
    /\ \E is_set_now \in BOOLEAN :
          IF is_set_now
          THEN call' = [call EXCEPT !.stage = "cancelled"]
          ELSE call' =
                 [call EXCEPT
                    !.i = @ + 1,
                    ![call.stage] =
                        IF reports(cadence(call.stage), call.i + 1,
                                   results_of(call.stage))
                        THEN Append(@, IngestionProgress(
                                          call.stage, "active", call.i + 1,
                                          results_of(call.stage), 0))
                        ELSE @]
    /\ UNCHANGED run

\* runner.py:146-163 and 183-190: after the last result of a stage: type
\* analysis follows parsing when a file parsed.
NextStage ==
    /\ call.fn = "report"
    /\ call.stage \in {"parsing", "type_analysis"}
    /\ call.i = results_of(call.stage)
    /\ call' = [call EXCEPT
                  !.stage = IF call.stage = "parsing" /\ call.all_parsed > 0
                            THEN "type_analysis" ELSE "done",
                  !.i = 0]
    /\ UNCHANGED run

CadenceNext == ResultLoop \/ NextStage

CadenceSpec == CadenceInit /\ [][CadenceNext]_vars

\* The results of the stage handled so far.
HandledResults(stage) ==
    IF call.stage = stage THEN call.i
    ELSE IF stage = "parsing" \/ call.stage = "done"
         THEN IF stage = "parsing" THEN call.python_files
              ELSE call.all_parsed
         ELSE 0

\* The intermediate events of a stage follow the cadence N over n results,
\* of which `handled` are handled.
FollowsCadence(emitted, N, n, handled) ==
    /\ { emitted[k].pnum : k \in DOMAIN emitted }
          = { d \in 1..handled : d % N = 0 \/ d = n }
    /\ \A k \in DOMAIN emitted :
          /\ emitted[k].pden = n
          /\ k > 1 => emitted[k - 1].pnum < emitted[k].pnum
    /\ Len(emitted) <= (n + N - 1) \div N
    /\ (handled = n /\ n > 0) =>
          /\ emitted # <<>>
          /\ emitted[Len(emitted)].pnum = emitted[Len(emitted)].pden

\* ---------------------------------------------------------------------- C25
\* C25: parsing emits an intermediate 'active' event after the i-th result
\* exactly when i is a multiple of 50 or the last, type_analysis exactly
\* when i is a multiple of 25 or the last; a stage over n files emits at
\* most ceil(n/N) such events and the last of them reports progress 100.
C25_Cadence ==
    (call.fn = "report" /\ call.stage # "cancelled") =>
        /\ FollowsCadence(call.parsing, 50, call.python_files,
                          HandledResults("parsing"))
        /\ FollowsCadence(call.type_analysis, 25, call.all_parsed,
                          HandledResults("type_analysis"))

\* Both stages ran over more than 50 results: parsing reported twice (after
\* the 50th and the last), type analysis three times.
C25_Witness ==
    /\ call.fn = "report"
    /\ call.stage = "done"
    /\ call.all_parsed > 50
    /\ Len(call.parsing) = 2
    /\ Len(call.type_analysis) = 3


\* ---------------------------------------------------------------------- C26
\* C26: every StageState emitted has 0 <= progress <= 100 (progress is
\* pnum / pden * 100), no progress is computed with a zero divisor, and the
\* progress values of one stage never decrease in emission order, whatever
\* the repository holds.
C26_ProgressBounded ==
    /\ \A k \in ProgressIdx :
          /\ events[k].pden > 0
          /\ 0 <= events[k].pnum
          /\ events[k].pnum <= events[k].pden
    /\ \A k \in ProgressIdx : \A l \in ProgressIdx :
          (k < l /\ events[k].stage = events[l].stage) =>
              events[k].pnum * events[l].pden
                 <= events[l].pnum * events[k].pden

\* A run completed in which message creation reported a progress strictly
\* between 0 and 100 (a text file was still to come) and so did indexing
\* (the first of two batches).
C26_Witness ==
    /\ pc = "done"
    /\ \E k \in ProgressIdx :
          /\ events[k].stage = "message_creation"
          /\ 0 < events[k].pnum /\ events[k].pnum < events[k].pden
    /\ \E k \in ProgressIdx :
          /\ events[k].stage = "indexing"
          /\ 0 < events[k].pnum /\ events[k].pnum < events[k].pden


\* ---------------------------------------------------------------------- C27
\* C27: when the listing is done, the file of the repository has been
\* returned exactly when it matches a classification table and no component
\* of its path below the root is in the exclusion set; the directories
\* above the root play no part.
C27_ReturnedIffNotExcludedBelowRoot ==
    (call.fn = "discover_files" /\ call.k = Len(call.entries)) =>
        ((\E k \in 1..Len(call.files) :
              call.files[k].path = call.root \o call.tree)
         <=> (/\ classify(call.tree[Len(call.tree)]) # ""
              /\ Range(call.tree) \cap call.excludes = {}))


\* ---------------------------------------------------------------------- C29
\* C29: when the repository path does not exist (the run's first event is
\* an error) the run emits that one event, an IngestionError with stage
\* 'discovery', and nothing else: no progress event, no discovery, no
\* conversation opened, no batch submitted.
C29_MissingRepository ==
    (events # <<>> /\ events[1].type = "error") =>
        /\ Len(events) = 1
        /\ events[1].stage = "discovery"
        /\ pc = "failed"
        /\ ProgressIdx = {}
        /\ files = <<>>
        /\ conversations = 0
        /\ batches = <<>>

\* The run of a missing repository has ended, and the cancellation signal
\* was set afterwards.
C29_Witness ==
    /\ pc = "failed"
    /\ raised_in = "none"
    /\ cancel_event
    /\ Len(events) = 1
    /\ events[1].type = "error"


\* ===================================================== runs that are driven
\* A step of the generator itself: every disjunct of Next but the user's
\* SetCancel.
Resume ==
    \/ Start
    \/ Discover
    \/ StartParsing
    \/ ParseFanOut
    \/ ParseLoop
    \/ StartTypeAnalysis
    \/ JediFanOut
    \/ JediLoop
    \/ StartMessageCreation
    \/ MessageLoop
    \/ TextLoop
    \/ StartIndexing
    \/ CreateConversation
    \/ CreateConversationRaises
    \/ BatchLoop
    \/ AddMessages
    \/ AddMessagesReturns
    \/ AddMessagesRaises
    \/ Complete

\* The runs in which the consumer keeps iterating the generator and every
\* awaited call (discovery, the gathered tasks, create_conversation,
\* add_messages_with_indexing) returns or raises: the generator is resumed
\* whenever it can take a step.
FairSpec == Init /\ [][Next]_vars /\ WF_vars(Resume)

Ended == pc \in {"done", "failed", "cancelled"}

\* ---------------------------------------------------------------------- C28
\* C28: every driven run eventually ends, in exactly one of three ways: one
\* IngestionComplete as the last event, one IngestionError as the last
\* event, or a silent exit after a cancellation poll; a run never emits
\* both, and never emits an event after either.
C28_EndsOneWay ==
    /\ <>Ended
    /\ [](/\ Cardinality(EventsOfType("complete"))
               + Cardinality(EventsOfType("error")) <= 1
          /\ EventsOfType("complete") \cup EventsOfType("error")
               \subseteq {Len(events)}
          /\ pc = "done" <=> EventsOfType("complete") # {}
          /\ pc = "failed" <=> EventsOfType("error") # {}
          /\ pc = "cancelled" =>
                /\ observed # "none"
                /\ cancel_event)
    /\ [][Ended => (events' = events /\ pc' = pc)]_vars

\* A run has ended in each of the three ways: this one silently, at the poll
\* of the batch loop after a batch was indexed.
C28_Witness ==
    /\ pc = "cancelled"
    /\ observed = "batch_loop"
    /\ batches # <<>>
    /\ EventsOfType("complete") \cup EventsOfType("error") = {}


\* ======================================================= the ingestion modal
\* The modal follows a run of run_ingestion: call holds the modal's fields,
\* handled the number of the run's events its worker has consumed.  The modal
\* is followed until it is dismissed.

\* ingestion_modal.py:176-177, 273-289 and 346-353: a mounted modal whose
\* worker is about to iterate run_ingestion; result is what dismiss was
\* given.
ModalInit ==
    /\ NotStarted
    /\ call = [fn |-> "modal", handled |-> 0, is_complete |-> FALSE,
               is_cancelled |-> FALSE, cancel_button |-> TRUE,
               close_button |-> FALSE, dismissed |-> FALSE,
               result |-> "pending"]

ModalOpen == call.fn = "modal" /\ ~call.dismissed

\* runner.py:125, 165, 276 and 308: the awaits at which the generator, and
\* with it the modal's worker, gives way to the handlers of the user's
\* actions; they also run once the worker has returned.
UserCanAct ==
    /\ ModalOpen
    /\ call.handled = Len(events)
    /\ pc \in {"await_parse", "await_jedi", "await_create_conversation",
               "await_add_messages", "done", "failed", "cancelled"}

\* ingestion_modal.py:359-363: the worker asks the generator for its next
\* event, every earlier one being handled.
WorkerResume ==
    /\ ModalOpen
    /\ call.handled = Len(events)
    /\ Resume

\* ingestion_modal.py:420-425: _show_close_button.
show_close_button(modal) ==
    [modal EXCEPT !.cancel_button = FALSE, !.close_button = TRUE]

\* ingestion_modal.py:364-376: the body of the worker's loop for one event.
HandleEvent ==
    /\ ModalOpen
    /\ call.handled < Len(events)
    /\ LET event == events[call.handled + 1]
           seen == [call EXCEPT !.handled = @ + 1]
       IN  call' =
             IF event.type = "progress" THEN seen
             ELSE IF event.type = "complete"
                  THEN show_close_button([seen EXCEPT !.is_complete = TRUE])
                  ELSE show_close_button(seen)
    /\ UNCHANGED run

\* self._cancel_event.set()
cancel_event_set ==
    /\ cancel_event' = TRUE
    /\ cancel_set_at' = IF cancel_event THEN cancel_set_at ELSE pc
    /\ UNCHANGED <<pc, events, data, index, observed, faults>>

\* self.dismiss(self.output_db if self.is_complete else None)
dismiss(modal) ==
    [modal EXCEPT !.dismissed = TRUE,
                  !.result = IF modal.is_complete THEN "output_db"
                             ELSE "None"]

\* ingestion_modal.py:431-436: the Cancel button is pressed.
PressCancel ==
    /\ UserCanAct
    /\ call.cancel_button
    /\ call' = show_close_button([call EXCEPT !.is_cancelled = TRUE])
    /\ cancel_event_set

\* ingestion_modal.py:429-430: the Done button is pressed.
PressClose ==
    /\ UserCanAct
    /\ call.close_button
    /\ call' = dismiss(call)
    /\ UNCHANGED run

\* ingestion_modal.py:438-447: action_dismiss, bound to the Escape key.
PressEscape ==
    /\ UserCanAct
    /\ IF call.is_complete \/ call.is_cancelled
       THEN /\ call' = dismiss(call)
            /\ UNCHANGED run
       ELSE /\ call' = [call EXCEPT !.is_cancelled = TRUE,
                                    !.dismissed = TRUE, !.result = "None"]
            /\ cancel_event_set

ModalNext ==
    \/ WorkerResume
    \/ HandleEvent
    \/ PressCancel
    \/ PressClose
    \/ PressEscape

ModalSpec == ModalInit /\ [][ModalNext]_vars

\* ---------------------------------------------------------------------- C30
\* C30: once the user has cancelled, the modal never returns a database
\* path: whenever the cancel action falls among the events of the run, the
\* modal is dismissed with None, and is_complete and is_cancelled are never
\* both true.
C30_NoPathAfterCancel ==
    call.fn = "modal" =>
        /\ ~(call.is_complete /\ call.is_cancelled)
        /\ (call.dismissed /\ call.is_cancelled) => call.result = "None"

====
